---------------------------- MODULE Spec2Model ----------------------------
(***************************************************************************)
(* A model of flight2's conversion cache (internal/dataset/manager.go) and *)
(* of its remote-handle cache (internal/source/source.go).                 *)
(*                                                                         *)
(* Go strings are TLA+ strings; byte contents of files are strings too.    *)
(* A credential value is a record [t, s]: its dynamic Go type and its      *)
(* fmt.Sprint form (the int 22 and the string "22" have the same s and a   *)
(* different t).  md5 is idealised as collision-free on its input string:  *)
(* the digest of x is written "md5(" \o x \o ")".                          *)
(***************************************************************************)
EXTENDS Integers, Sequences, FiniteSets, TLC

(***************************************************************************)
(* Strings                                                                 *)
(***************************************************************************)
Char(s, i) == SubSeq(s, i, i)

HasPrefix(s, p) == Len(s) >= Len(p) /\ SubSeq(s, 1, Len(p)) = p

HasSuffix(s, p) == Len(s) >= Len(p) /\ SubSeq(s, Len(s) - Len(p) + 1, Len(s)) = p

TrimPrefix(s, p) == IF HasPrefix(s, p) THEN SubSeq(s, Len(p) + 1, Len(s)) ELSE s

\* The first position of the one-character string c in s, 0 when absent.
RECURSIVE IndexFrom(_, _, _)
IndexFrom(s, c, i) ==
    IF i > Len(s) THEN 0
    ELSE IF Char(s, i) = c THEN i
    ELSE IndexFrom(s, c, i + 1)

Index(s, c) == IndexFrom(s, c, 1)

\* strings.Contains
Contains(s, sub) ==
    \E i \in 1..(Len(s) - Len(sub) + 1) : SubSeq(s, i, i + Len(sub) - 1) = sub

\* Printable ASCII in byte order (space, the quotes, the backquote and the backslash left out).
AsciiOrder ==
    "!#$%&()*+,-./0123456789:;<=>?@ABCDEFGHIJKLMNOPQRSTUVWXYZ[]^_abcdefghijklmnopqrstuvwxyz{|}~"

RankOf ==
    [c \in {Char(AsciiOrder, i) : i \in 1..Len(AsciiOrder)} |->
        CHOOSE i \in 1..Len(AsciiOrder) : Char(AsciiOrder, i) = c]

Rank(c) == RankOf[c]

UpperLetters == "ABCDEFGHIJKLMNOPQRSTUVWXYZ"
LowerLetters == "abcdefghijklmnopqrstuvwxyz"

LowerChar(c) ==
    IF Index(UpperLetters, c) = 0 THEN c
    ELSE Char(LowerLetters, Index(UpperLetters, c))

\* strings.ToLower
RECURSIVE ToLower(_)
ToLower(s) ==
    IF s = "" THEN ""
    ELSE LowerChar(Char(s, 1)) \o ToLower(SubSeq(s, 2, Len(s)))

\* Go's < on strings: byte-wise lexicographic.
RECURSIVE StrLess(_, _)
StrLess(a, b) ==
    IF b = "" THEN FALSE
    ELSE IF a = "" THEN TRUE
    ELSE IF Char(a, 1) = Char(b, 1)
         THEN StrLess(SubSeq(a, 2, Len(a)), SubSeq(b, 2, Len(b)))
    ELSE Rank(Char(a, 1)) < Rank(Char(b, 1))

\* Insert k into the sorted sequence of strings sorted.
RECURSIVE InsertSorted(_, _)
InsertSorted(k, sorted) ==
    IF sorted = <<>> THEN <<k>>
    ELSE IF StrLess(k, Head(sorted)) THEN <<k>> \o sorted
    ELSE <<Head(sorted)>> \o InsertSorted(k, Tail(sorted))

\* The keys in the order the map iteration gave them: what sort.Strings prevents.
SortStringsSkipped(keys) == keys

\* sort.Strings
RECURSIVE SortStrings(_)
SortStrings(keys) ==
    IF keys = <<>> THEN <<>>
    ELSE InsertSorted(Head(keys), SortStrings(Tail(keys)))

\* filepath.Ext: the suffix from the last dot of the last path element.
RECURSIVE ExtFrom(_, _)
ExtFrom(path, i) ==
    IF i < 1 \/ Char(path, i) = "/" THEN ""
    ELSE IF Char(path, i) = "." THEN SubSeq(path, i, Len(path))
    ELSE ExtFrom(path, i - 1)

Ext(path) == ExtFrom(path, Len(path))

\* path.Dir and path.Base for the inputs of the model (no trailing slash).
RECURSIVE LastSlash(_, _)
LastSlash(s, i) ==
    IF i < 1 THEN 0
    ELSE IF Char(s, i) = "/" THEN i
    ELSE LastSlash(s, i - 1)

PathDir(s) ==
    LET i == LastSlash(s, Len(s))
    IN  IF i = 0 THEN "." ELSE IF i = 1 THEN "/" ELSE SubSeq(s, 1, i - 1)

PathBase(s) ==
    LET i == LastSlash(s, Len(s))
    IN  IF s = "" THEN "." ELSE SubSeq(s, i + 1, Len(s))

\* All orders in which the keys of a Go map can be visited.
RECURSIVE Perms(_)
Perms(S) ==
    IF S = {} THEN {<<>>}
    ELSE UNION {{<<x>> \o p : p \in Perms(S \ {x})} : x \in S}


(***************************************************************************)
(* Credentials: map[string]interface{}                                     *)
(***************************************************************************)
StrVal(s) == [t |-> "string", s |-> s]
IntVal(s) == [t |-> "int", s |-> s]

\* fmt.Sprint of a credential value
Sprint(v) == v.s

\* creds["type"].(string)
TypeAssert(creds) ==
    IF "type" \in DOMAIN creds /\ creds["type"].t = "string"
    THEN [ok |-> TRUE, s |-> creds["type"].s]
    ELSE [ok |-> FALSE, s |-> ""]

(***************************************************************************)
(* internal/source: the handle cache                                       *)
(***************************************************************************)
\* The working directory of the process, for filepath.Abs.
Cwd == "/w"

\* filepath.Clean for the paths of the model, which have no "." or ".."
\* element and no trailing slash: repeated slashes become one.
RECURSIVE CollapseSlashes(_)
CollapseSlashes(p) ==
    IF Len(p) < 2 THEN p
    ELSE IF SubSeq(p, 1, 2) = "//" THEN CollapseSlashes(SubSeq(p, 2, Len(p)))
    ELSE SubSeq(p, 1, 1) \o CollapseSlashes(SubSeq(p, 2, Len(p)))

\* filepath.Abs: the path joined to the working directory unless it is
\* absolute, and cleaned.
Abs(p) == CollapseSlashes(IF HasPrefix(p, "/") THEN p ELSE Cwd \o "/" \o p)

IsLetter(c) == Index(UpperLetters, c) > 0 \/ Index(LowerLetters, c) > 0

IsSchemeExtra(c) == Index("0123456789+-.", c) > 0

\* net/url getScheme: [ok, scheme, rest]
RECURSIVE GetScheme(_, _)
GetScheme(raw, i) ==
    IF i > Len(raw) THEN [ok |-> TRUE, scheme |-> "", rest |-> raw]
    ELSE LET c == Char(raw, i)
         IN  IF IsLetter(c) THEN GetScheme(raw, i + 1)
             ELSE IF IsSchemeExtra(c)
                  THEN IF i = 1 THEN [ok |-> TRUE, scheme |-> "", rest |-> raw]
                       ELSE GetScheme(raw, i + 1)
             ELSE IF c = ":"
                  THEN IF i = 1 THEN [ok |-> FALSE, scheme |-> "", rest |-> ""]
                       ELSE [ok |-> TRUE, scheme |-> SubSeq(raw, 1, i - 1),
                             rest |-> SubSeq(raw, i + 1, Len(raw))]
             ELSE [ok |-> TRUE, scheme |-> "", rest |-> raw]

\* net/url.Parse for strings without query, fragment, userinfo or escapes:
\* [ok, Scheme, Host, Path]
UrlParse(raw) ==
    LET g == GetScheme(raw, 1)
        rest == g.rest
        slash == Index(rest, "/")
        colon == Index(rest, ":")
        seg == IF slash = 0 THEN rest ELSE SubSeq(rest, 1, slash - 1)
        auth == SubSeq(rest, 3, Len(rest))
        cut == Index(auth, "/")
    IN  IF ~g.ok THEN [ok |-> FALSE, Scheme |-> "", Host |-> "", Path |-> ""]
        ELSE IF ~HasPrefix(rest, "/") /\ g.scheme # ""
             THEN [ok |-> TRUE, Scheme |-> ToLower(g.scheme), Host |-> "", Path |-> ""]
        ELSE IF ~HasPrefix(rest, "/") /\ Index(seg, ":") > 0
             THEN [ok |-> FALSE, Scheme |-> "", Host |-> "", Path |-> ""]
        ELSE IF HasPrefix(rest, "//") /\ (g.scheme # "" \/ ~HasPrefix(rest, "///"))
             THEN [ok |-> TRUE, Scheme |-> ToLower(g.scheme),
                   Host |-> IF cut = 0 THEN auth ELSE SubSeq(auth, 1, cut - 1),
                   Path |-> IF cut = 0 THEN "" ELSE SubSeq(auth, cut, Len(auth))]
        ELSE [ok |-> TRUE, Scheme |-> ToLower(g.scheme), Host |-> "", Path |-> rest]

\* A type taken from the credentials only, never inferred from the path.
FsTypeOfNoInfer(sourcePath, creds) ==
    [ok |-> TypeAssert(creds).ok, fsType |-> TypeAssert(creds).s]

\* The type of the backend: creds["type"], or http inferred from the path.
FsTypeOf(sourcePath, creds) ==
    LET t == TypeAssert(creds)
    IN  IF t.ok THEN [ok |-> TRUE, fsType |-> t.s]
        ELSE IF HasPrefix(sourcePath, "http:") \/ HasPrefix(sourcePath, "https:")
             THEN [ok |-> TRUE, fsType |-> "http"]
        ELSE [ok |-> FALSE, fsType |-> ""]

\* A root taken from the directory of the path, whatever the backend.
DecomposeDirRoot(fsType, sourcePath) ==
    [fsRoot |-> PathDir(sourcePath), relPath |-> PathBase(sourcePath)]

\* A decomposition that leaves the leading slash of a cloud path in place.
DecomposeKeepSlash(fsType, sourcePath) ==
    IF fsType = "local"
    THEN [fsRoot |-> "/", relPath |-> TrimPrefix(Abs(sourcePath), "/")]
    ELSE IF fsType \in {"http", "https"}
    THEN [fsRoot |-> UrlParse(sourcePath).Scheme \o "://" \o UrlParse(sourcePath).Host,
          relPath |-> TrimPrefix(UrlParse(sourcePath).Path, "/")]
    ELSE [fsRoot |-> "", relPath |-> sourcePath]

\* The root of the handle and the path relative to it, by backend class.
Decompose(fsType, sourcePath) ==
    IF fsType = "local"
    THEN [fsRoot |-> "/", relPath |-> TrimPrefix(Abs(sourcePath), "/")]
    ELSE IF fsType \in {"http", "https"}
    THEN LET u == UrlParse(sourcePath)
         IN  IF u.ok
             THEN [fsRoot |-> u.Scheme \o "://" \o u.Host,
                   relPath |-> TrimPrefix(u.Path, "/")]
             ELSE [fsRoot |-> PathDir(sourcePath), relPath |-> PathBase(sourcePath)]
    ELSE [fsRoot |-> "", relPath |-> TrimPrefix(sourcePath, "/")]

\* hex.EncodeToString of the md5 digest of x, taken as collision-free.
Md5Hex(x) == "md5(" \o x \o ")"

\* What is written into the digest after the root: each key and its value's
\* string form, in the order of keys.
RECURSIVE WriteKeys(_, _)
WriteKeys(creds, keys) ==
    IF keys = <<>> THEN ""
    ELSE Head(keys) \o Sprint(creds[Head(keys)]) \o WriteKeys(creds, Tail(keys))

\* The key of the handle cache.  order is the order in which the map
\* iteration visits the keys of creds.
VfsHash(fsRoot, creds, order) ==
    Md5Hex(fsRoot \o WriteKeys(creds, SortStrings(order)))

\* The configmap handed to the backend: every credential but the type.
ConfOf(creds) == [k \in DOMAIN creds \ {"type"} |-> Sprint(creds[k])]

\* The backends rclone registers (backend/all), as far as the model uses them.
KnownBackends == {"local", "http", "s3", "sftp"}

EmptyMap == [x \in {} |-> ""]

NoHandle == [id |-> 0, fsType |-> "", fsRoot |-> "", conf |-> EmptyMap]

\* getVFS on the handle cache `cache`: the cache afterwards, the handle, the
\* relative path and the error ("" for none).  newFsFails: backend setup fails.
GetVFS(cache, sourcePath, creds, order, newFsFails) ==
    LET t == FsTypeOf(sourcePath, creds)
        d == Decompose(t.fsType, sourcePath)
        hash == VfsHash(d.fsRoot, creds, order)
        v == [id |-> Cardinality(DOMAIN cache) + 1, fsType |-> t.fsType,
              fsRoot |-> d.fsRoot, conf |-> ConfOf(creds)]
        fail(e) == [cache |-> cache, v |-> NoHandle, relPath |-> "", err |-> e,
                    hash |-> hash, fsRoot |-> d.fsRoot]
    IN  IF ~t.ok
        THEN [cache |-> cache, v |-> NoHandle, relPath |-> "",
              err |-> "credentials missing type field", hash |-> "", fsRoot |-> ""]
        ELSE IF hash \in DOMAIN cache
        THEN [cache |-> cache, v |-> cache[hash], relPath |-> d.relPath, err |-> "",
              hash |-> hash, fsRoot |-> d.fsRoot]
        ELSE IF t.fsType \notin KnownBackends
        THEN fail("backend type not found")
        ELSE IF newFsFails
        THEN fail("failed to create fs")
        ELSE [cache |-> cache @@ (hash :> v), v |-> v, relPath |-> d.relPath,
              err |-> "", hash |-> hash, fsRoot |-> d.fsRoot]


(***************************************************************************)
(* The world outside the process: local files and remote objects.  A       *)
(* location is <<backend type, path under the backend's root>>; an entry   *)
(* is "absent", "dir" or the bytes of a file.                              *)
(***************************************************************************)
EntryAt(world, loc) == IF loc \in DOMAIN world THEN world[loc] ELSE "absent"

\* os.Stat on the local file system
Stat(world, p) == EntryAt(world, <<"local", Abs(p)>>)

\* v.OpenFile(relPath, os.O_RDONLY, 0) and reading the stream to its end
OpenFile(world, v, relPath) == EntryAt(world, <<v.fsType, v.fsRoot \o relPath>>)

(***************************************************************************)
(* internal/dataset: the conversion cache                                  *)
(***************************************************************************)
supportedExtensions ==
    <<".csv", ".xlsx", ".xls", ".zip", ".html", ".htm", ".json", ".txt",
      ".db", ".sqlite", ".sqlite3">>

PassThroughExts == {".db", ".sqlite", ".sqlite3"}

\* A driver table whose default is the text driver instead of none.
getDriverDefaultTxt(ext) ==
    CASE ext = ".csv" -> "csv"
      [] ext \in {".xlsx", ".xls"} -> "excel"
      [] ext = ".zip" -> "zip"
      [] ext \in {".html", ".htm"} -> "html"
      [] ext = ".json" -> "json"
      [] OTHER -> "txt"

\* A driver table that knows one spreadsheet extension only.
getDriverXlsxOnly(ext) ==
    CASE ext = ".csv" -> "csv"
      [] ext = ".xlsx" -> "excel"
      [] ext = ".zip" -> "zip"
      [] ext \in {".html", ".htm"} -> "html"
      [] ext = ".json" -> "json"
      [] ext = ".txt" -> "txt"
      [] OTHER -> ""

getDriver(ext) ==
    CASE ext = ".csv" -> "csv"
      [] ext \in {".xlsx", ".xls"} -> "excel"
      [] ext = ".zip" -> "zip"
      [] ext \in {".html", ".htm"} -> "html"
      [] ext = ".json" -> "json"
      [] ext = ".txt" -> "txt"
      [] OTHER -> ""

\* The bytes converters.ImportToSQLite writes for a source: a function of the
\* driver and of the source's bytes.
Convert(driver, bytes) == driver \o "(" \o bytes \o ")"

\* The directory of the Manager's disk tier and scratch files.
CacheDir == "/cache"

Put(f, k, v) == [x \in DOMAIN f \cup {k} |-> IF x = k THEN v ELSE f[x]]

Remove(f, k) == [x \in DOMAIN f \ {k} |-> f[x]]

\* A temp name that is not checked against the files that exist.
TempNameReused(files, prefix, suffix) == CacheDir \o "/" \o prefix \o "1" \o suffix

\* os.CreateTemp(cacheDir, prefix*suffix): a name no file of the directory
\* has.  The random part is the least number that is free.
TempName(files, prefix, suffix) ==
    LET name(i) == CacheDir \o "/" \o prefix \o ToString(i) \o suffix
        i == CHOOSE n \in 1..(Cardinality(DOMAIN files) + 1) :
                 /\ name(n) \notin DOMAIN files
                 /\ \A m \in 1..(n - 1) : name(m) \in DOMAIN files
    IN  name(i)

\* A probe that takes the first candidate that exists, directory or not.
RECURSIVE FirstCandidateAnyEntry(_, _, _)
FirstCandidateAnyEntry(world, sourcePath, exts) ==
    IF exts = <<>> THEN sourcePath
    ELSE IF Stat(world, sourcePath \o Head(exts)) # "absent"
         THEN sourcePath \o Head(exts)
    ELSE FirstCandidateAnyEntry(world, sourcePath, Tail(exts))

\* Local extension resolution: the first existing non-directory candidate.
RECURSIVE FirstCandidate(_, _, _)
FirstCandidate(world, sourcePath, exts) ==
    IF exts = <<>> THEN sourcePath
    ELSE IF Stat(world, sourcePath \o Head(exts)) \notin {"absent", "dir"}
         THEN sourcePath \o Head(exts)
    ELSE FirstCandidate(world, sourcePath, Tail(exts))

\* No extension resolution: the path as requested.
ResolveExtensionOff(world, sourcePath, creds) == sourcePath

ResolveExtension(world, sourcePath, creds) ==
    LET t == TypeAssert(creds)
    IN  IF t.ok /\ t.s = "local" /\ Stat(world, sourcePath) = "absent"
        THEN FirstCandidate(world, sourcePath, supportedExtensions)
        ELSE sourcePath

\* A key that leaves the alias out.
CacheKeyPathOnly(alias, sourcePath) == ":" \o sourcePath

CacheKey(alias, sourcePath) == alias \o ":" \o sourcePath

DiskPath(key) == CacheDir \o "/" \o Md5Hex(key) \o ".sqlite"

\* tmpOut.Close(); os.Remove(tmpOutName)
RemoveOutput(files, tmpOutName) == Remove(files, tmpOutName)

\* The input scratch file left where it is.
DeferredRemoveSkipped(files, tmpSourceName) == files

\* defer os.Remove(tmpSourceName), run when GetSQLiteDB returns
DeferredRemove(files, tmpSourceName) == Remove(files, tmpSourceName)

\* A pass-through test that forgets ".db".
IsPassThroughNoDb(ext) == ext \in {".sqlite", ".sqlite3"}

\* ext == ".db" || ext == ".sqlite" || ext == ".sqlite3"
IsPassThrough(ext) == ext \in PassThroughExts

\* A memory tier that reports success and stores nothing.
CacheSetDropped(mem, key, data, res) == mem

\* m.cache.Set(key, data), which ends "ok" or "failed"
CacheSet(mem, key, data, res) == IF res = "ok" THEN Put(mem, key, data) ELSE mem

\* A disk write that creates the file and stores nothing.
WriteDiskEmpty(files, diskPath, data, res) ==
    IF res \in {"ok", "truncated"} THEN Put(files, diskPath, "") ELSE files

\* os.WriteFile(diskPath, data, 0644): "ok", "failed" before anything was
\* written, or "truncated" (the file was opened and the write failed)
WriteDisk(files, diskPath, data, res) ==
    IF res = "ok" THEN Put(files, diskPath, data)
    ELSE IF res = "truncated" THEN Put(files, diskPath, "")
    ELSE files

\* The bytes of a file after a Write of data at offset 0 that does not change
\* its length unless it extends it.
WriteAt0(old, data) ==
    IF Len(old) > Len(data) THEN data \o SubSeq(old, Len(data) + 1, Len(old)) ELSE data

\* os.WriteFile, first half: OpenFile(name, O_WRONLY|O_CREATE|O_TRUNC, perm)
OpenTrunc(files, name) == Put(files, name, "")

\* os.WriteFile, second half: f.Write(data) on the descriptor, at offset 0
FileWrite(files, name, data) ==
    Put(files, name, WriteAt0(IF name \in DOMAIN files THEN files[name] ELSE "", data))

\* A failed cache write that fails the request.
PersistErrFatal(sr, dw) ==
    IF sr = "failed" \/ dw \in {"failed", "truncated"} THEN "cache write failed" ELSE ""

\* The error GetSQLiteDB returns after the cache updates: both failures are only
\* logged (fmt.Printf("Warning: ...")), the return is tmpOutName, nil.
PersistErr(sr, dw) == ""

\* What the cache directory holds under a name that is a directory.
DirEntry == "<dir>"

\* os.Stat(name) succeeds and !info.IsDir()
IsRegular(files, name) == name \in DOMAIN files /\ files[name] # DirEntry

\* The ways os.WriteFile(diskPath, data, 0644) can end: on a directory the
\* open fails.
DiskWriteOutcomes(files, diskPath) ==
    IF diskPath \in DOMAIN files /\ files[diskPath] = DirEntry
    THEN {"failed"}
    ELSE {"ok", "failed", "truncated"}

\* A lookup that takes whatever os.Stat finds at the disk path for an entry.
LookupAnyEntry(mem, files, key, diskPath) ==
    IF key \in DOMAIN mem THEN "memory"
    ELSE IF diskPath \in DOMAIN files THEN "disk"
    ELSE "miss"

\* A lookup that never turns to the disk tier.
LookupNoDisk(mem, files, key, diskPath) ==
    IF key \in DOMAIN mem THEN "memory" ELSE "miss"

\* A lookup that tries the disk tier before the memory tier.
LookupDiskFirst(mem, files, key, diskPath) ==
    IF diskPath \in DOMAIN files THEN "disk"
    ELSE IF key \in DOMAIN mem THEN "memory"
    ELSE "miss"

\* The tier GetSQLiteDB turns to: m.cache.Get(key), then os.Stat(diskPath).
Lookup(mem, files, key, diskPath) ==
    IF key \in DOMAIN mem THEN "memory"
    ELSE IF IsRegular(files, diskPath) THEN "disk"
    ELSE "miss"

\* writeTempFile: the ways it can end, each [files, path, err, made].  A failed
\* Write leaves the file with a prefix of the data (here the empty one).
writeTempFile(files, data) ==
    LET name == TempName(files, "flight2_cache_", ".sqlite")
    IN  {[files |-> files, path |-> "", err |-> "create cache temp", made |-> {}],
         [files |-> Put(files, name, ""), path |-> "", err |-> "write cache temp",
          made |-> {name}],
         [files |-> Put(files, name, data), path |-> name, err |-> "", made |-> {name}]}

\* The Close calls on the converter of the directory branch: converters.Open
\* ("filesystem") is followed by ImportToSQLite and f.Close() only.
DirConverterCloses(closable) == 0

\* The Close calls on the converter of the stream branch:
\* if c, ok := conv.(io.Closer); ok { defer c.Close() }
StreamConverterCloses(closable) == IF closable THEN 1 ELSE 0

\* A directory test that never finds a directory.
IsDirSourceNever(world, sourcePath, creds) == FALSE

\* isLocal and isDir: the type is the string "local" and os.Stat(sourcePath)
\* finds a directory.
IsDirSource(world, sourcePath, creds) ==
    /\ TypeAssert(creds).ok /\ TypeAssert(creds).s = "local"
    /\ Stat(world, sourcePath) = "dir"

\* A step that is run a second time when it fails.
StepRunsRetried(e) == IF e = "" THEN 1 ELSE 2

\* How often GetSQLiteDB runs the fetch or the import that ended with error e
\* ("" for none): the statements stand in no loop and every error returns.
StepRuns(e) == 1

\* The miss pipeline, from the creation of the output file to its close: the
\* ways it can end, any operation on a file, a stream or a converter failing.
\* Each is [files, vfs, err, out, fetches, opens, imports, made, fetched,
\* closable, closes, driver].
Pipeline(world, files, vfs, sourcePath, creds, order) ==
    LET tmpOutName == TempName(files, "flight2_db_", ".sqlite")
        f0 == Put(files, tmpOutName, "")
        isDir == IsDirSource(world, sourcePath, creds)
        ext == ToLower(Ext(sourcePath))
        tmpSourceName == TempName(f0, "flight2_source_", ext)
        driver == getDriver(ext)
        base == [files |-> files, vfs |-> vfs, err |-> "", out |-> "", fetches |-> 0,
                 opens |-> 0, imports |-> 0, made |-> {}, fetched |-> "",
                 closable |-> FALSE, closes |-> 0, driver |-> ""]
        \* the converter that Open returned implements io.Closer, or does not
        withConv(p, dir) ==
            {[p EXCEPT !.closable = c,
                       !.closes = IF dir THEN DirConverterCloses(c)
                                  ELSE StreamConverterCloses(c)] : c \in BOOLEAN}
        \* tmpOut.Close(); os.Remove(tmpOutName); return "", err
        failDir(e, o, i) ==
            [base EXCEPT !.files = RemoveOutput(f0, tmpOutName), !.err = e,
                         !.made = {tmpOutName}, !.opens = o, !.imports = i * StepRuns(e),
                         !.driver = IF o = 1 THEN "filesystem" ELSE ""]
        failFetch(g, e) ==
            [base EXCEPT !.files = RemoveOutput(f0, tmpOutName), !.vfs = g.cache, !.err = e,
                         !.made = {tmpOutName},
                         !.fetches = IF e = "fetch error" THEN StepRuns(e) ELSE 1]
        \* the same, and the deferred os.Remove(tmpSourceName)
        failSrc(g, fs, e, o, i) ==
            [base EXCEPT !.files = DeferredRemove(RemoveOutput(fs, tmpOutName), tmpSourceName),
                         !.vfs = g.cache, !.err = e, !.made = {tmpOutName, tmpSourceName},
                         !.fetches = 1, !.opens = o, !.imports = i * StepRuns(e),
                         !.fetched = fs[tmpSourceName],
                         !.driver = IF o = 1 THEN driver ELSE ""]
        done(g, fs, bytes, o, i) ==
            [base EXCEPT !.files = DeferredRemove(Put(fs, tmpOutName, bytes), tmpSourceName),
                         !.vfs = g.cache, !.out = tmpOutName,
                         !.made = {tmpOutName, tmpSourceName},
                         !.fetches = 1, !.opens = o, !.imports = i,
                         !.fetched = fs[tmpSourceName],
                         !.driver = IF o = 1 THEN driver ELSE ""]
        \* after the source was copied to the input scratch file (files fs)
        convert(g, fs) ==
            IF IsPassThrough(ext)
            THEN {failSrc(g, fs, "open source temp", 0, 0),
                  failSrc(g, fs, "copy to output", 0, 0),
                  done(g, fs, fs[tmpSourceName], 0, 0)}
            ELSE IF driver = ""
            THEN {failSrc(g, fs, "unsupported file type", 0, 0)}
            ELSE {failSrc(g, fs, "open source temp", 0, 0),
                  failSrc(g, fs, "failed to open converter", 1, 0)}
                 \cup withConv(failSrc(g, fs, "conversion failed", 1, 1), FALSE)
                 \cup withConv(done(g, fs, Convert(driver, fs[tmpSourceName]), 1, 1),
                               FALSE)
        \* after source.GetFileStream called getVFS with result g
        fetch(g) ==
            LET entry == OpenFile(world, g.v, g.relPath)
            IN  IF g.err # "" \/ entry \in {"absent", "dir"}
                THEN {failFetch(g, "fetch error")}
                ELSE {failFetch(g, "fetch error"),
                      failFetch(g, "create source temp"),
                      failSrc(g, Put(f0, tmpSourceName, ""),
                              "failed to write source temp file", 0, 0)}
                     \cup convert(g, Put(f0, tmpSourceName, entry))
    IN  {[base EXCEPT !.err = "create output temp"]}
        \cup
        IF isDir
        THEN {failDir("open dir", 0, 0),
              failDir("failed to open filesystem converter", 1, 0)}
             \cup withConv(failDir("conversion failed", 1, 1), TRUE)
             \cup withConv([base EXCEPT !.files = Put(f0, tmpOutName,
                                                      Convert("filesystem", "dir")),
                                        !.out = tmpOutName, !.made = {tmpOutName},
                                        !.opens = 1, !.imports = 1,
                                        !.driver = "filesystem"], TRUE)
        ELSE UNION {fetch(GetVFS(vfs, sourcePath, creds, order, newFsFails)) :
                       newFsFails \in BOOLEAN}

\* The text of an error of a callee, which GetSQLiteDB wraps with %w or
\* returns as it is.
Cause == "cause"

\* The text of the error GetSQLiteDB returns for the failure e of a call that
\* opened the converter driver for a source of extension ext: the fmt.Errorf
\* formats of the function; every other failure is returned unwrapped.
ErrorText(e, driver, ext) ==
    CASE e = "fetch error" -> "fetch error: " \o Cause
      [] e = "failed to open filesystem converter" ->
             "failed to open filesystem converter: " \o Cause
      [] e = "failed to open converter" ->
             "failed to open converter for " \o driver \o ": " \o Cause
      [] e = "conversion failed" -> "conversion failed: " \o Cause
      [] e = "failed to write source temp file" ->
             "failed to write source temp file: " \o Cause
      [] e = "unsupported file type" -> "unsupported file type: " \o ext
      [] e = "failed to read converted db" -> "failed to read converted db: " \o Cause
      [] OTHER -> Cause

\* GetSQLiteDB: the ways the call can end, each the state afterwards and the
\* record r of the call.
GetSQLiteDB(world, mem, files, vfs, alias, sourcePath0, creds, order) ==
    LET sourcePath == ResolveExtension(world, sourcePath0, creds)
        key == CacheKey(alias, sourcePath)
        diskPath == DiskPath(key)
        r0 == [alias |-> alias, sourcePath |-> sourcePath0, creds |-> creds,
               resolved |-> sourcePath, diskRead |-> "none",
               key |-> key, diskPath |-> diskPath, tier |-> "", err |-> "", path |-> "",
               fetches |-> 0, opens |-> 0, imports |-> 0, made |-> {}, fetched |-> "",
               memSet |-> "none", diskWrite |-> "none", fresh |-> FALSE, gap |-> {},
               closable |-> FALSE, closes |-> 0, driver |-> ""]
        hit(tier, m, w, sr) ==
            [mem |-> m, files |-> w.files, vfs |-> vfs,
             r |-> [r0 EXCEPT !.tier = tier, !.err = w.err, !.path = w.path,
                              !.diskRead = IF tier = "disk" THEN "ok" ELSE "none",
                              !.made = w.made, !.memSet = sr,
                              !.fresh = w.path # "" /\ w.path \notin DOMAIN files]]
        rec(p) == [r0 EXCEPT !.tier = "miss", !.err = p.err,
                             !.diskRead = IF Lookup(mem, files, key, diskPath) = "disk"
                                          THEN "failed" ELSE "none", !.fetches = p.fetches,
                             !.opens = p.opens, !.imports = p.imports, !.made = p.made,
                             !.fetched = p.fetched, !.closable = p.closable,
                             !.closes = p.closes, !.driver = p.driver]
        miss(p) ==
            IF p.err # ""
            THEN {[mem |-> mem, files |-> p.files, vfs |-> p.vfs, r |-> rec(p)]}
            ELSE {[mem |-> mem, files |-> p.files, vfs |-> p.vfs,
                   r |-> [rec(p) EXCEPT !.err = "failed to read converted db"]]}
                 \cup
                 {[mem |-> CacheSet(mem, key, p.files[p.out], sr),
                   files |-> WriteDisk(p.files, diskPath, p.files[p.out], dw),
                   vfs |-> p.vfs,
                   r |-> [rec(p) EXCEPT !.err = PersistErr(sr, dw),
                                        !.path = IF PersistErr(sr, dw) = "" THEN p.out
                                                 ELSE "",
                                        !.memSet = sr, !.diskWrite = dw,
                                        !.fresh = p.out \notin DOMAIN files]] :
                     sr \in {"ok", "failed"}, dw \in DiskWriteOutcomes(files, diskPath)}
        pipeline == UNION {miss(p) : p \in Pipeline(world, files, vfs, sourcePath,
                                                    creds, order)}
        tier == Lookup(mem, files, key, diskPath)
    IN  IF tier = "memory"
        THEN {hit("memory", mem, w, "none") : w \in writeTempFile(files, mem[key])}
        ELSE IF tier = "disk"
        THEN {hit("disk", CacheSet(mem, key, files[diskPath], sr), w, sr) :
                 sr \in {"ok", "failed"}, w \in writeTempFile(files, files[diskPath])}
             \cup pipeline
        ELSE pipeline


(***************************************************************************)
(* The inputs of the model                                                 *)
(***************************************************************************)
CLocal == [type |-> StrVal("local")]
CS3 == [type |-> StrVal("s3"), access_key_id |-> StrVal("k1")]

\* <<alias, credentials, sourcePath>>
Requests ==
    {<<"a", CLocal, "/d/r">>, <<"a", CLocal, "/d/r.csv">>, <<"a:", CLocal, "/d/r.csv">>,
     <<"a", CLocal, "/d/r.db">>, <<"a:", CS3, "b.DB">>, <<"a", CS3, ":b.DB">>,
     <<"a", CS3, "/x.bin">>, <<"a", CS3, "/d/r">>}

\* The entries each location of the world can hold.
LocEntries ==
    [x \in {<<"local", "/d/r">>, <<"local", "/d/r.csv">>, <<"local", "/d/r.db">>,
            <<"s3", "b.DB">>, <<"s3", ":b.DB">>, <<"s3", "x.bin">>, <<"s3", "d/r">>} |->
        CASE x = <<"local", "/d/r">> -> {"absent", "dir", "c0"}
          [] x = <<"local", "/d/r.csv">> -> {"absent", "c1"}
          [] x = <<"local", "/d/r.db">> -> {"absent", "c2"}
          [] x = <<"s3", "b.DB">> -> {"c3"}
          [] x = <<"s3", ":b.DB">> -> {"c4"}
          [] x = <<"s3", "x.bin">> -> {"c5"}
          [] x = <<"s3", "d/r">> -> {"c6"}]

\* The worlds a behaviour can start in: the local entries vary, the remote are fixed.
Worlds ==
    {[x \in DOMAIN LocEntries |->
         CASE x = <<"local", "/d/r">> -> r
           [] x = <<"local", "/d/r.csv">> -> c
           [] x = <<"local", "/d/r.db">> -> d
           [] OTHER -> CHOOSE e \in LocEntries[x] : TRUE] :
        r \in LocEntries[<<"local", "/d/r">>],
        c \in LocEntries[<<"local", "/d/r.csv">>],
        d \in LocEntries[<<"local", "/d/r.db">>]}

\* The credential maps and paths of direct getVFS calls (ListEntries).
CS3b == [type |-> StrVal("s3"), access_key_id |-> StrVal("k2")]
CSftpInt == [type |-> StrVal("sftp"), port |-> IntVal("22")]
CSftpStr == [type |-> StrVal("sftp"), port |-> StrVal("22")]
CNoType == [user |-> StrVal("u")]
CBogus == [type |-> StrVal("bogus")]
CIntType == [type |-> IntVal("s3")]

VfsCreds == {CLocal, CS3, CS3b, CSftpInt, CSftpStr, CNoType, CBogus}

VfsPaths == {"/d/r.csv", "b.DB", "http://h/x.csv", "http://h/y.csv", "http://g/x.csv"}

\* How many GetSQLiteDB calls a behaviour makes, and how often its sources change.
MaxCalls == 2
MaxMutations == 1
\* How many direct getVFS calls a behaviour makes.
MaxVfsCalls == 2

(***************************************************************************)
(* internal/server: the request history                                    *)
(***************************************************************************)
\* How many items the history of the model keeps (NewServer keeps more), and
\* how many history calls each goroutine makes.
HistoryLimit == 2
MaxHistoryOps == 2

\* NewRequestHistory(limit)
NewRequestHistory(limit) == [items |-> <<>>, limit |-> limit]

\* items with its element at position i taken out: append(items[:i], items[i+1:]...)
RemoveAt(items, i) == SubSeq(items, 1, i - 1) \o SubSeq(items, i + 1, Len(items))

\* A deduplication that leaves the items as they are.
DedupSkipped(items, url) == items

\* The first loop of Add: the first item equal to url is removed.
Dedup(items, url) ==
    IF \E i \in 1..Len(items) : items[i] = url
    THEN RemoveAt(items, CHOOSE i \in 1..Len(items) :
                             items[i] = url /\ \A j \in 1..(i - 1) : items[j] # url)
    ELSE items

\* The rest of Add: url is appended, and the first item dropped when the list
\* is longer than limit.
AppendTrim(items, url, limit) ==
    IF Len(items) + 1 > limit THEN Tail(Append(items, url)) ELSE Append(items, url)

\* GetRecent: a new slice with the items in reverse order
Reversed(items) == [i \in 1..Len(items) |-> items[Len(items) + 1 - i]]

\* A lock that is handed out while it is held.
HistoryLockAlways(mu) == TRUE

\* h.mu.Lock() returns: the mutex is free.
HistoryLock(mu) == mu = 0

(***************************************************************************)
(* internal/server: listTables                                             *)
(***************************************************************************)
\* strings.TrimSuffix
TrimSuffix(s, p) == IF HasSuffix(s, p) THEN SubSeq(s, 1, Len(s) - Len(p)) ELSE s

\* The names a database holds, as a set.
TableNames == {"other", "tb0", "tb1"}

\* The paths under which a database is served.
DbUrlPaths == {"/testdb", "/testdb/", "testdb", "/app/test/banquet"}

\* SELECT name FROM sqlite_master WHERE type='table' ORDER BY name
QueryRows(names) == SortStrings(CHOOSE order \in Perms(names) : TRUE)

\* What the rows loop can collect from rows: a row whose Scan fails is
\* skipped, and rows.Next() may end the loop early (rows.Err() is not read).
RECURSIVE Collected(_)
Collected(rows) ==
    IF rows = <<>> THEN {<<>>}
    ELSE LET rest == Collected(Tail(rows))
         IN  rest \cup {<<Head(rows)>> \o t : t \in rest}

\* A redirect whenever tb0 is among the tables.
IsOnlyTb0Among(tables) == \E i \in 1..Len(tables) : tables[i] = "tb0"

\* len(tables) == 1 && tables[0] == "tb0"
IsOnlyTb0(tables) == Len(tables) = 1 /\ tables[1] = "tb0"

\* target of the redirect
RedirectTarget(dbUrlPath) ==
    LET target == TrimSuffix(dbUrlPath, "/") \o "/tb0"
    IN  IF ~HasPrefix(target, "/") THEN "/" \o target ELSE target

\* listTables: queryFails is db.Query returning an error, tables is what the
\* rows loop collected.
ListTables(autoSelectTb0, dbUrlPath, queryFails, tables) ==
    IF queryFails
    THEN [status |-> 500, target |-> "", links |-> <<>>]
    ELSE IF autoSelectTb0 /\ IsOnlyTb0(tables)
    THEN [status |-> 302, target |-> RedirectTarget(dbUrlPath), links |-> <<>>]
    ELSE LET abs == IF ~HasPrefix(dbUrlPath, "/") THEN "/" \o dbUrlPath ELSE dbUrlPath
         IN  [status |-> 200, target |-> "",
              links |-> [i \in 1..Len(tables) |->
                            TrimSuffix(abs, "/") \o "/" \o tables[i]]]

(***************************************************************************)
(* internal/server: Router and localOnlyMiddleware                         *)
(***************************************************************************)
RECURSIVE LastIndexFrom(_, _, _)
LastIndexFrom(s, c, i) ==
    IF i < 1 THEN 0
    ELSE IF Char(s, i) = c THEN i
    ELSE LastIndexFrom(s, c, i - 1)

\* net.SplitHostPort: the host of "host:port" and of "[host]:port", or an error.
SplitHostPort(hostport) ==
    LET n == Len(hostport)
        i == LastIndexFrom(hostport, ":", n)
        end == Index(hostport, "]")
        bracket == Char(hostport, 1) = "["
        host == IF bracket THEN SubSeq(hostport, 2, end - 1)
                ELSE SubSeq(hostport, 1, i - 1)
        fromJ == IF bracket THEN SubSeq(hostport, 2, n) ELSE hostport
        fromK == IF bracket THEN SubSeq(hostport, end + 1, n) ELSE hostport
        ok == /\ i # 0
              /\ IF bracket THEN end # 0 /\ i = end + 1
                 ELSE Index(host, ":") = 0
              /\ Index(fromJ, "[") = 0
              /\ Index(fromK, "]") = 0
    IN  IF ok THEN [host |-> host, err |-> FALSE] ELSE [host |-> "", err |-> TRUE]

\* host of the middleware: the split host, or the whole address when the split fails
RemoteHost(remote) ==
    LET sp == SplitHostPort(remote)
    IN  IF sp.err THEN remote ELSE sp.host

\* Every host passes.
IsLocalHostAlways(host) == TRUE

\* !(host != "127.0.0.1" && host != "::1" && host != "localhost")
IsLocalHost(host) == ~(host # "127.0.0.1" /\ host # "::1" /\ host # "localhost")

\* The patterns of Router, the more specific before the less specific. kind
\* "exact" is a path without wildcard, "alias" is prefix{alias}/{path...},
\* "rest" is prefix{path...} and a pattern that ends in a slash.
Patterns ==
    << [method |-> "GET",  kind |-> "exact", path |-> "/app/debug/env",          handler |-> "handleDebugEnv"],
       [method |-> "GET",  kind |-> "exact", path |-> "/app/credentials/manage", handler |-> "handleIndex"],
       [method |-> "POST", kind |-> "exact", path |-> "/app/credentials/manage", handler |-> "handleCreateCredential"],
       [method |-> "POST", kind |-> "exact", path |-> "/app/credentials/delete", handler |-> "handleDeleteCredential"],
       [method |-> "",     kind |-> "exact", path |-> "/app/credentials",        handler |-> "handleCredentials"],
       [method |-> "GET",  kind |-> "alias", path |-> "/app/browse/",            handler |-> "handleBrowse"],
       [method |-> "GET",  kind |-> "alias", path |-> "/app/view/",              handler |-> "handleView"],
       [method |-> "GET",  kind |-> "rest",  path |-> "/app/test/banquet/",      handler |-> "handleBanquetTestDB"],
       [method |-> "",     kind |-> "rest",  path |-> "/app/",                   handler |-> "handleAppIndex"],
       [method |-> "",     kind |-> "rest",  path |-> "/",                       handler |-> "handleBanquet"] >>

PatternMatches(pat, method, urlPath) ==
    /\ pat.method \in {"", method}
    /\ CASE pat.kind = "exact" -> urlPath = pat.path
         [] pat.kind = "rest"  -> HasPrefix(urlPath, pat.path)
         [] pat.kind = "alias" ->
                /\ HasPrefix(urlPath, pat.path)
                /\ Index(TrimPrefix(urlPath, pat.path), "/") > 1

\* mux: the handler of the most specific pattern that matches
Mux(method, urlPath) ==
    LET hits == {i \in 1..Len(Patterns) : PatternMatches(Patterns[i], method, urlPath)}
    IN  Patterns[CHOOSE i \in hits : \A j \in hits : i <= j].handler

\* Router's handler serving one request: the answer and the handler reached.
Route(localOnly, req) ==
    IF localOnly /\ ~IsLocalHost(RemoteHost(req.remote))
    THEN [status |-> 403, body |-> "Access denied: local only", handler |-> "", passed |-> <<>>]
    ELSE [status |-> 0, body |-> "", handler |-> Mux(req.method, req.path), passed |-> <<req>>]

(***************************************************************************)
(* State                                                                   *)
(***************************************************************************)
VARIABLES
    world,      \* the sources: location -> entry
    mem,        \* the memory tier (bigcache): key -> bytes
    files,      \* the cache directory: file name -> bytes
    vfsCache,   \* the handle cache: hash -> handle
    last,       \* the record of the latest GetSQLiteDB call
    prev,       \* the record of the call before it
    gap,        \* what happened since the latest call
    wrote,      \* <<key, alias, sourcePath>> of every call that wrote a tier
    ncalls,     \* the calls made so far
    nmut,       \* the changes of the sources so far
    lastV,      \* the record of the latest direct getVFS call
    prevV,      \* the record of the one before it
    nvfs,       \* the direct getVFS calls made so far
    rx,         \* the record of the latest extension resolution
    vproc,      \* the concurrent getVFS calls: process -> position and locals
    vfsMu,      \* the holder of vfsMu, 0 when it is free
    created,    \* the hashes for which backend setup succeeded, in order
    cproc,      \* the concurrent GetSQLiteDB calls: process -> position and locals
    reads,      \* the bytes every read of the disk-tier file returned
    dwrites,    \* the bytes of every finished disk-tier write, in order
    cfg,        \* the Server's configuration: autoSelectTb0, localOnly
    history,    \* the RequestHistory of the Server: items and limit
    historyMu,  \* the holder of RequestHistory.mu, 0 when it is free
    hproc,      \* the concurrent RequestHistory calls: process -> position and locals
    resp,       \* the record of the latest request the Server answered
    drv         \* the records of the two latest getDriver calls

vars == <<world, mem, files, vfsCache, last, prev, gap, wrote, ncalls, nmut,
          lastV, prevV, nvfs, rx, vproc, vfsMu, created, cproc, reads, dwrites,
          cfg, history, historyMu, hproc, resp, drv>>

resVars == <<rx>>

histVars == <<history, historyMu, hproc>>

srvVars == <<cfg, histVars, resp, drv>>

lockVars == <<vproc, vfsMu, created>>

concVars == <<cproc, reads, dwrites>>

cacheVars == <<world, mem, files, last, prev, gap, wrote, ncalls, nmut>>

vfsVars == <<lastV, prevV, nvfs>>

NoVfsCall ==
    [sourcePath |-> "", creds |-> EmptyMap, order |-> <<>>, called |-> FALSE,
     fsRoot |-> "", relPath |-> "", hash |-> "", err |-> "", v |-> NoHandle]

\* No extension resolution yet.
NoRx == [called |-> FALSE, sourcePath |-> "", creds |-> EmptyMap, out |-> ""]

\* The processes of the concurrent getVFS calls and of the concurrent
\* GetSQLiteDB calls.
VProcs == 1..3

CProcs == 1..3

IdleV ==
    [pc |-> "idle", sourcePath |-> "", creds |-> EmptyMap, order |-> <<>>,
     fsType |-> "", fsRoot |-> "", relPath |-> "", hash |-> "", err |-> "",
     v |-> NoHandle]

IdleC ==
    [pc |-> "idle", sourcePath |-> "", key |-> "", diskPath |-> "", tier |-> "",
     cold |-> FALSE, data |-> "", out |-> "", src |-> "", fetched |-> "",
     err |-> "", path |-> "", ctxDone |-> ""]

\* The goroutines that call the RequestHistory.
HProcs == 1..2

IdleH == [pc |-> "idle", op |-> "", url |-> "", before |-> <<>>, after |-> <<>>,
          res |-> <<>>, n |-> 0]

\* No request answered, no getDriver call made.
NoResp == [kind |-> ""]

NoDrv == <<>>

\* Nothing resolved, no concurrent call under way.
InitProcs ==
    /\ rx = NoRx
    /\ vproc = [p \in VProcs |-> IdleV]
    /\ vfsMu = 0
    /\ created = <<>>
    /\ cproc = [p \in CProcs |-> IdleC]
    /\ reads = {}
    /\ dwrites = <<>>
    /\ historyMu = 0
    /\ hproc = [p \in HProcs |-> IdleH]
    /\ resp = NoResp
    /\ drv = NoDrv

\* NewServer(..., autoSelectTb0, localOnly, ...) with both switches off.
InitAux ==
    /\ InitProcs
    /\ cfg = [autoSelectTb0 |-> FALSE, localOnly |-> FALSE]
    /\ history = NewRequestHistory(HistoryLimit)

NoCall ==
    [alias |-> "", sourcePath |-> "", creds |-> EmptyMap, resolved |-> "",
     diskRead |-> "none", key |-> "", diskPath |-> "",
     tier |-> "", err |-> "", path |-> "", fetches |-> 0, opens |-> 0, imports |-> 0,
     made |-> {}, fetched |-> "", memSet |-> "none", diskWrite |-> "none",
     fresh |-> FALSE, gap |-> {}, closable |-> FALSE, closes |-> 0, driver |-> ""]

Init ==
    /\ world \in Worlds
    /\ mem = EmptyMap
    /\ files = EmptyMap
    /\ vfsCache = EmptyMap
    /\ last = NoCall
    /\ prev = NoCall
    /\ gap = {}
    /\ wrote = {}
    /\ ncalls = 0
    /\ nmut = 0
    /\ lastV = NoVfsCall
    /\ prevV = NoVfsCall
    /\ nvfs = 0
    /\ InitAux

\* One GetSQLiteDB call, from entry to return.
Call(alias, creds, sourcePath, order) ==
    /\ ncalls < MaxCalls
    /\ \E g \in GetSQLiteDB(world, mem, files, vfsCache, alias, sourcePath, creds, order) :
           /\ mem' = g.mem
           /\ files' = g.files
           /\ vfsCache' = g.vfs
           /\ last' = [g.r EXCEPT !.gap = gap]
           /\ wrote' = IF g.r.memSet = "ok" \/ g.r.diskWrite \in {"ok", "truncated"}
                       THEN wrote \cup {<<g.r.key, alias, sourcePath>>}
                       ELSE wrote
    /\ prev' = last
    /\ gap' = {}
    /\ ncalls' = ncalls + 1
    /\ UNCHANGED <<world, nmut, vfsVars, resVars, srvVars, lockVars, concVars>>

\* The caller removes the file the latest call returned (defer os.Remove(dbPath)).
CallerRemove ==
    /\ ncalls < MaxCalls
    /\ last.err = ""
    /\ last.path \in DOMAIN files
    /\ files' = Remove(files, last.path)
    /\ gap' = gap \cup {"remove"}
    /\ UNCHANGED <<world, mem, vfsCache, last, prev, wrote, ncalls, nmut, vfsVars, resVars, srvVars, lockVars, concVars>>

\* bigcache drops an entry: its life window is over, or room is needed.
Evict(key) ==
    /\ ncalls < MaxCalls
    /\ key \in DOMAIN mem
    /\ mem' = Remove(mem, key)
    /\ gap' = gap \cup {"evict"}
    /\ UNCHANGED <<world, files, vfsCache, last, prev, wrote, ncalls, nmut, vfsVars, resVars, srvVars, lockVars, concVars>>

\* The source changes (a change before the first call is another initial world).
Mutate(loc, e) ==
    /\ 0 < ncalls /\ ncalls < MaxCalls
    /\ nmut < MaxMutations
    /\ world[loc] # e
    /\ world' = [world EXCEPT ![loc] = e]
    /\ gap' = gap \cup {"mutate"}
    /\ nmut' = nmut + 1
    /\ UNCHANGED <<mem, files, vfsCache, last, prev, wrote, ncalls, vfsVars, resVars, srvVars, lockVars, concVars>>

Next ==
    \/ \E q \in Requests : \E order \in Perms(DOMAIN q[2]) : Call(q[1], q[2], q[3], order)
    \/ CallerRemove
    \/ \E key \in DOMAIN mem : Evict(key)
    \/ \E loc \in DOMAIN LocEntries : \E e \in LocEntries[loc] : Mutate(loc, e)

Spec == Init /\ [][Next]_vars

\* The requests a process served before it was restarted.
RestartRequests == {<<"a", CLocal, "/d/r.csv">>, <<"a:", CS3, "b.DB">>}

\* What source.GetFileStream opens for a path: the entry of the backend that
\* getVFS decomposes the path to.
SourceEntry(w, sourcePath, creds) ==
    OpenFile(w, [fsType |-> FsTypeOf(sourcePath, creds).fsType,
                 fsRoot |-> Decompose(FsTypeOf(sourcePath, creds).fsType, sourcePath).fsRoot],
             Decompose(FsTypeOf(sourcePath, creds).fsType, sourcePath).relPath)

\* The bytes a successful miss writes to both tiers for a source that is a file.
RestartArtifact(w, sourcePath, creds) ==
    IF IsPassThrough(ToLower(Ext(sourcePath)))
    THEN SourceEntry(w, sourcePath, creds)
    ELSE Convert(getDriver(ToLower(Ext(sourcePath))), SourceEntry(w, sourcePath, creds))

\* What an earlier process left: the cache directory after one successful
\* conversion that wrote its disk-tier file, the returned file removed by the
\* caller, and the record of that write.
RestartDirs(w) ==
    {[files |-> Put(EmptyMap, DiskPath(CacheKey(q[1], ResolveExtension(w, q[3], q[2]))),
                    RestartArtifact(w, ResolveExtension(w, q[3], q[2]), q[2])),
      wrote |-> {<<CacheKey(q[1], ResolveExtension(w, q[3], q[2])), q[1], q[3]>>}] :
        q \in {x \in RestartRequests :
                  SourceEntry(w, ResolveExtension(w, x[3], x[2]), x[2])
                      \notin {"absent", "dir"}}}

\* A new Manager on the cache directory of an earlier process: that process
\* converted one request and wrote its disk-tier file, the caller removed the
\* returned file; the memory tier and the handle cache start empty.
InitRestart ==
    /\ world \in Worlds
    /\ \E s \in RestartDirs(world) :
           /\ files = s.files
           /\ wrote = s.wrote
    /\ mem = EmptyMap
    /\ vfsCache = EmptyMap
    /\ last = NoCall
    /\ prev = NoCall
    /\ gap = {}
    /\ ncalls = 0
    /\ nmut = 0
    /\ lastV = NoVfsCall
    /\ prevV = NoVfsCall
    /\ nvfs = 0
    /\ InitAux

\* The Manager after a restart, under the calls and events of Spec.
SpecRestart == InitRestart /\ [][Next]_vars

\* The request whose disk path an operator has turned into a directory.
DirRequest == <<"a", CLocal, "/d/r.db">>

\* The cache directory of an earlier process, as InitRestart has it, in which
\* the disk path of one other key is a directory; the sources are both there.
InitDiskDir ==
    /\ world \in {w \in Worlds : /\ w[<<"local", "/d/r">>] = "absent"
                                 /\ w[<<"local", "/d/r.csv">>] = "c1"
                                 /\ w[<<"local", "/d/r.db">>] = "c2"}
    /\ \E s \in RestartDirs(world) :
           /\ files = Put(s.files, DiskPath(CacheKey(DirRequest[1], DirRequest[3])),
                          DirEntry)
           /\ wrote = s.wrote
    /\ mem = EmptyMap
    /\ vfsCache = EmptyMap
    /\ last = NoCall
    /\ prev = NoCall
    /\ gap = {}
    /\ ncalls = 0
    /\ nmut = 0
    /\ lastV = NoVfsCall
    /\ prevV = NoVfsCall
    /\ nvfs = 0
    /\ InitAux

\* GetSQLiteDB calls on a cache directory with a directory at a disk path.
SpecDiskDir == InitDiskDir /\ [][Next]_vars

\* The path whose extension is resolved, and its candidates.
ResolveBase == "/d/r"

ResolvePaths == {ResolveBase, ResolveBase \o ".csv"}

ResolveCreds == {CLocal, CS3, CNoType, [type |-> IntVal("local")]}

ResolveLocs ==
    {<<"local", ResolveBase>>}
        \cup {<<"local", ResolveBase \o supportedExtensions[i]>> :
                 i \in 1..Len(supportedExtensions)}

\* The local directories the resolution runs on: the path itself absent, a
\* directory or a file, and up to two candidates present as a file or directory.
ResolveWorlds ==
    {[x \in ResolveLocs |->
         IF x = <<"local", ResolveBase>> THEN b
         ELSE IF x = <<"local", ResolveBase \o supportedExtensions[i]>> THEN ei
         ELSE IF x = <<"local", ResolveBase \o supportedExtensions[j]>> THEN ej
         ELSE "absent"] :
        b \in {"absent", "dir", "c0"},
        i \in 1..Len(supportedExtensions), j \in 1..Len(supportedExtensions),
        ei \in {"absent", "dir", "c1"}, ej \in {"absent", "dir", "c1"}}

InitResolve ==
    /\ world \in ResolveWorlds
    /\ mem = EmptyMap
    /\ files = EmptyMap
    /\ vfsCache = EmptyMap
    /\ last = NoCall
    /\ prev = NoCall
    /\ gap = {}
    /\ wrote = {}
    /\ ncalls = 0
    /\ nmut = 0
    /\ lastV = NoVfsCall
    /\ prevV = NoVfsCall
    /\ nvfs = 0
    /\ InitAux

\* The extension resolution at the head of GetSQLiteDB, for one request.
Resolve(sourcePath, creds) ==
    /\ rx' = [called |-> TRUE, sourcePath |-> sourcePath, creds |-> creds,
              out |-> ResolveExtension(world, sourcePath, creds)]
    /\ UNCHANGED <<cacheVars, vfsCache, vfsVars, lockVars, concVars, srvVars>>

NextResolve == \E sourcePath \in ResolvePaths, creds \in ResolveCreds : Resolve(sourcePath, creds)

\* The extension resolution alone, over local directories of every shape.
SpecResolve == InitResolve /\ [][NextResolve]_vars

(***************************************************************************)
(* Concurrent getVFS calls, step by step                                   *)
(***************************************************************************)
\* <<sourcePath, credentials>> of the concurrent getVFS calls.
LockRequests ==
    {<<"b.DB", CS3>>, <<"/x.bin", CS3>>, <<"b.DB", CS3b>>, <<"b.DB", CBogus>>,
     <<"b.DB", CNoType>>}

\* <<sourcePath, credentials>> of the concurrent calls whose type is resolved:
\* a string type, none, one that is no string, with and without an http path.
TypeRequests ==
    {<<"b.DB", CS3>>, <<"b.DB", CNoType>>, <<"http://h/x", CNoType>>,
     <<"https://h/x", CIntType>>, <<"b.DB", CIntType>>, <<"http://h/x", CS3>>}

\* A lock anyone can take at any time.
TryLockAlways(mu) == TRUE

\* vfsMu.Lock() returns: the mutex is free.
TryLock(mu) == mu = 0

\* A return that leaves the mutex held.
UnlockSkipped(mu) == mu

\* vfsMu.Unlock(): the mutex is free.
Unlock(mu) == 0

\* A setup whose errors are dropped.
NewFsOutcomeIgnored(fsType, newFsFails) == ""

\* fs.Find(fsType) and regInfo.NewFs(...): the error getVFS returns, "" for none.
NewFsOutcome(fsType, newFsFails) ==
    IF fsType \notin KnownBackends THEN "backend type not found"
    ELSE IF newFsFails THEN "failed to create fs"
    ELSE ""

\* Lines 43-102: the type, the root and relative path, the hash; no lock held.
VEnter(p, sourcePath, creds, order) ==
    /\ vproc[p].pc = "idle"
    /\ LET t == FsTypeOf(sourcePath, creds)
           d == Decompose(t.fsType, sourcePath)
       IN  vproc' = [vproc EXCEPT ![p] =
               IF ~t.ok
               THEN [IdleV EXCEPT !.pc = "done", !.sourcePath = sourcePath,
                                  !.creds = creds, !.order = order,
                                  !.err = "credentials missing type field"]
               ELSE [IdleV EXCEPT !.pc = "hashed", !.sourcePath = sourcePath,
                                  !.creds = creds, !.order = order,
                                  !.fsType = t.fsType, !.fsRoot = d.fsRoot,
                                  !.relPath = d.relPath,
                                  !.hash = VfsHash(d.fsRoot, creds, order)]]
    /\ UNCHANGED <<cacheVars, vfsCache, vfsVars, resVars, srvVars, vfsMu, created, concVars>>

\* vfsMu.Lock()
VLock(p) ==
    /\ vproc[p].pc = "hashed"
    /\ TryLock(vfsMu)
    /\ vfsMu' = p
    /\ vproc' = [vproc EXCEPT ![p].pc = "locked"]
    /\ UNCHANGED <<cacheVars, vfsCache, vfsVars, resVars, srvVars, created, concVars>>

\* if v, ok := vfsCache[hash]; ok { return v, relPath, nil }
VCheck(p) ==
    /\ vproc[p].pc = "locked"
    /\ vproc' = [vproc EXCEPT ![p] =
           IF vproc[p].hash \in DOMAIN vfsCache
           THEN [vproc[p] EXCEPT !.pc = "unlock", !.v = vfsCache[vproc[p].hash]]
           ELSE [vproc[p] EXCEPT !.pc = "create"]]
    /\ UNCHANGED <<cacheVars, vfsCache, vfsVars, resVars, srvVars, vfsMu, created, concVars>>

\* fs.Find, NewFs and vfs.New: on an error the call returns, else it has a new
\* handle to store.
VNewFs(p, newFsFails) ==
    /\ vproc[p].pc = "create"
    /\ LET e == NewFsOutcome(vproc[p].fsType, newFsFails)
       IN  IF e # ""
           THEN /\ vproc' = [vproc EXCEPT ![p].pc = "unlock", ![p].err = e]
                /\ UNCHANGED created
           ELSE /\ vproc' = [vproc EXCEPT ![p].pc = "store",
                                ![p].v = [id |-> Len(created) + 1,
                                          fsType |-> vproc[p].fsType,
                                          fsRoot |-> vproc[p].fsRoot,
                                          conf |-> ConfOf(vproc[p].creds)]]
                /\ created' = Append(created, <<vproc[p].hash, p>>)
    /\ UNCHANGED <<cacheVars, vfsCache, vfsVars, resVars, srvVars, vfsMu, concVars>>

\* vfsCache[hash] = v
VStore(p) ==
    /\ vproc[p].pc = "store"
    /\ vfsCache' = Put(vfsCache, vproc[p].hash, vproc[p].v)
    /\ vproc' = [vproc EXCEPT ![p].pc = "unlock"]
    /\ UNCHANGED <<cacheVars, vfsVars, resVars, srvVars, vfsMu, created, concVars>>

\* The deferred vfsMu.Unlock(), as getVFS returns.
VUnlock(p) ==
    /\ vproc[p].pc = "unlock"
    /\ vfsMu' = Unlock(vfsMu)
    /\ vproc' = [vproc EXCEPT ![p].pc = "done"]
    /\ UNCHANGED <<cacheVars, vfsCache, vfsVars, resVars, srvVars, created, concVars>>

NextLock ==
    \E p \in VProcs :
        \/ \E q \in LockRequests : \E order \in Perms(DOMAIN q[2]) :
               VEnter(p, q[1], q[2], order)
        \/ VLock(p)
        \/ VCheck(p)
        \/ \E newFsFails \in BOOLEAN : VNewFs(p, newFsFails)
        \/ VStore(p)
        \/ VUnlock(p)

\* The process starts with an empty handle map and a free lock; the files play
\* no part in getVFS, so one world stands for all.
InitLock == Init /\ world = (CHOOSE w \in Worlds : TRUE)

\* Concurrent getVFS calls, one per process, in every interleaving.
SpecLock == InitLock /\ [][NextLock]_vars

\* The steps of a call between taking the lock and its return: straight-line
\* code, and a backend setup that terminates.
VHolding(p) == VCheck(p) \/ (\E newFsFails \in BOOLEAN : VNewFs(p, newFsFails))
                  \/ VStore(p) \/ VUnlock(p)

\* The same calls when every goroutine keeps running and a goroutine waiting
\* for the mutex gets it in the end (sync.Mutex hands the lock to a waiter that
\* has waited long enough).
SpecLockFair ==
    /\ InitLock /\ [][NextLock]_vars
    /\ \A p \in VProcs : WF_vars(VHolding(p)) /\ SF_vars(VLock(p))

NextType ==
    \E p \in VProcs :
        \/ \E q \in TypeRequests : \E order \in Perms(DOMAIN q[2]) :
               VEnter(p, q[1], q[2], order)
        \/ VLock(p)
        \/ VCheck(p)
        \/ \E newFsFails \in BOOLEAN : VNewFs(p, newFsFails)
        \/ VStore(p)
        \/ VUnlock(p)

\* The same calls over the requests that differ in how the type is found.
SpecType == InitLock /\ [][NextType]_vars

(***************************************************************************)
(* Concurrent GetSQLiteDB calls, step by step                              *)
(***************************************************************************)
\* <<alias, credentials, sourcePath>> of the concurrent calls: one key.
ConcRequest == <<"a", CLocal, "/d/r.csv">>

ConcLoc == <<"local", "/d/r.csv">>

\* The contents the source file takes, of different lengths.
ConcContents == {"c1", "c1234"}

concRest == <<last, prev, gap, wrote, ncalls, vfsVars, resVars, srvVars, lockVars>>

\* The positions of a call at which a step of GetSQLiteDB is to be taken.
StepPcs ==
    {"idle", "stat", "readdisk", "promote", "wtemp", "createout", "fetch", "convert",
     "setmem", "opendisk", "writedisk", "return"}

PipelinePcs == {"fetch", "convert", "setmem", "opendisk", "writedisk", "return"}

\* A single-flight gate: a call starts its pipeline only when no other call
\* is in one.
AtStepSingleFlight(procs, p, pc) ==
    /\ procs[p].pc = pc
    /\ pc = "createout"
          => \A q \in DOMAIN procs \ {p} : procs[q].pc \notin PipelinePcs

\* The condition of a step of GetSQLiteDB: the call has reached it.  No
\* statement of GetSQLiteDB takes a lock, waits on a channel or looks for a
\* call under way.
AtStep(procs, p, pc) == procs[p].pc = pc

\* The pipeline steps of a call: from the creation of its output file to its return.
InPipeline(p) == cproc[p].pc \in PipelinePcs

\* Lines 58-84: extension resolution, the key, m.cache.Get(key).
CStart(p) ==
    /\ AtStep(cproc, p, "idle")
    /\ LET sourcePath == ResolveExtension(world, ConcRequest[3], ConcRequest[2])
           key == CacheKey(ConcRequest[1], sourcePath)
           c == [IdleC EXCEPT !.sourcePath = sourcePath, !.key = key,
                              !.diskPath = DiskPath(key)]
       IN  cproc' = [cproc EXCEPT ![p] =
               IF key \in DOMAIN mem
               THEN [c EXCEPT !.pc = "wtemp", !.tier = "memory", !.data = mem[key]]
               ELSE [c EXCEPT !.pc = "stat"]]
    /\ UNCHANGED <<world, mem, files, vfsCache, nmut, reads, dwrites, concRest>>

\* os.Stat(diskPath)
CStat(p) ==
    /\ AtStep(cproc, p, "stat")
    /\ cproc' = [cproc EXCEPT ![p] =
           IF IsRegular(files, cproc[p].diskPath)
           THEN [cproc[p] EXCEPT !.pc = "readdisk"]
           ELSE [cproc[p] EXCEPT !.pc = "createout", !.tier = "miss",
                                 !.cold = cproc[p].key \notin DOMAIN mem]]
    /\ UNCHANGED <<world, mem, files, vfsCache, nmut, reads, dwrites, concRest>>

\* os.ReadFile(diskPath): the bytes the file has now.
CReadDisk(p) ==
    /\ AtStep(cproc, p, "readdisk")
    /\ IF cproc[p].diskPath \in DOMAIN files
       THEN /\ cproc' = [cproc EXCEPT ![p].pc = "promote", ![p].tier = "disk",
                                      ![p].data = files[cproc[p].diskPath]]
            /\ reads' = reads \cup {<<p, files[cproc[p].diskPath]>>}
       ELSE /\ cproc' = [cproc EXCEPT ![p].pc = "createout", ![p].tier = "miss"]
            /\ UNCHANGED reads
    /\ UNCHANGED <<world, mem, files, vfsCache, nmut, dwrites, concRest>>

\* m.cache.Set(key, data) of the disk hit
CPromote(p) ==
    /\ AtStep(cproc, p, "promote")
    /\ mem' = CacheSet(mem, cproc[p].key, cproc[p].data, "ok")
    /\ cproc' = [cproc EXCEPT ![p].pc = "wtemp"]
    /\ UNCHANGED <<world, files, vfsCache, nmut, reads, dwrites, concRest>>

\* m.writeTempFile(data) of a hit, and the return
CWriteTemp(p) ==
    /\ AtStep(cproc, p, "wtemp")
    /\ LET name == TempName(files, "flight2_cache_", ".sqlite")
       IN  /\ files' = Put(files, name, cproc[p].data)
           /\ cproc' = [cproc EXCEPT ![p].pc = "done", ![p].path = name]
    /\ UNCHANGED <<world, mem, vfsCache, nmut, reads, dwrites, concRest>>

\* os.CreateTemp(m.cacheDir, "flight2_db_*.sqlite")
CCreateOut(p) ==
    /\ AtStep(cproc, p, "createout")
    /\ LET name == TempName(files, "flight2_db_", ".sqlite")
       IN  /\ files' = Put(files, name, "")
           /\ cproc' = [cproc EXCEPT ![p].pc = "fetch", ![p].out = name]
    /\ UNCHANGED <<world, mem, vfsCache, nmut, reads, dwrites, concRest>>

\* source.GetFileStream, os.CreateTemp of the input file, io.Copy
CFetch(p) ==
    /\ AtStep(cproc, p, "fetch")
    /\ \E g \in {GetVFS(vfsCache, cproc[p].sourcePath, ConcRequest[2], <<"type">>, FALSE)} :
         LET entry == OpenFile(world, g.v, g.relPath)
             name == TempName(files, "flight2_source_",
                              ToLower(Ext(cproc[p].sourcePath)))
         IN  /\ vfsCache' = g.cache
             /\ IF g.err # "" \/ entry \in {"absent", "dir"}
                THEN /\ files' = RemoveOutput(files, cproc[p].out)
                     /\ cproc' = [cproc EXCEPT ![p].pc = "done",
                                               ![p].err = "fetch error"]
                ELSE /\ files' = Put(files, name, entry)
                     /\ cproc' = [cproc EXCEPT ![p].pc = "convert", ![p].src = name,
                                               ![p].fetched = entry]
    /\ UNCHANGED <<world, mem, nmut, reads, dwrites, concRest>>

\* os.Open(tmpSourceName), the copy or the conversion into tmpOut,
\* tmpOut.Close() and os.ReadFile(tmpOutName): steps on the call's own scratch
\* files, reading what the files hold.
CConvert(p) ==
    /\ AtStep(cproc, p, "convert")
    /\ LET ext == ToLower(Ext(cproc[p].sourcePath))
           driver == getDriver(ext)
       IN  IF cproc[p].src \notin DOMAIN files
           THEN /\ files' = RemoveOutput(files, cproc[p].out)
                /\ cproc' = [cproc EXCEPT ![p].pc = "return",
                                          ![p].err = "open source temp"]
           ELSE IF ~IsPassThrough(ext) /\ driver = ""
           THEN /\ files' = RemoveOutput(files, cproc[p].out)
                /\ cproc' = [cproc EXCEPT ![p].pc = "return",
                                          ![p].err = "unsupported file type"]
           ELSE /\ files' = IF cproc[p].out \in DOMAIN files
                              THEN FileWrite(files, cproc[p].out,
                                             IF IsPassThrough(ext) THEN files[cproc[p].src]
                                             ELSE Convert(driver, files[cproc[p].src]))
                              ELSE files
                /\ cproc' = [cproc EXCEPT ![p] =
                       IF cproc[p].out \in DOMAIN files
                       THEN [cproc[p] EXCEPT !.pc = "setmem",
                                             !.data = files'[cproc[p].out]]
                       ELSE [cproc[p] EXCEPT !.pc = "return",
                                             !.err = "failed to read converted db"]]
    /\ UNCHANGED <<world, mem, vfsCache, nmut, reads, dwrites, concRest>>

\* m.cache.Set(key, data) of the miss
CSetMem(p) ==
    /\ AtStep(cproc, p, "setmem")
    /\ mem' = CacheSet(mem, cproc[p].key, cproc[p].data, "ok")
    /\ cproc' = [cproc EXCEPT ![p].pc = "opendisk"]
    /\ UNCHANGED <<world, files, vfsCache, nmut, reads, dwrites, concRest>>

\* os.WriteFile(diskPath, data, 0644): the open, which truncates
COpenDisk(p) ==
    /\ AtStep(cproc, p, "opendisk")
    /\ files' = OpenTrunc(files, cproc[p].diskPath)
    /\ cproc' = [cproc EXCEPT ![p].pc = "writedisk"]
    /\ UNCHANGED <<world, mem, vfsCache, nmut, reads, dwrites, concRest>>

\* os.WriteFile(diskPath, data, 0644): the write and the close
CWriteDisk(p) ==
    /\ AtStep(cproc, p, "writedisk")
    /\ files' = FileWrite(files, cproc[p].diskPath, cproc[p].data)
    /\ dwrites' = Append(dwrites, <<p, cproc[p].data>>)
    /\ cproc' = [cproc EXCEPT ![p].pc = "return"]
    /\ UNCHANGED <<world, mem, vfsCache, nmut, reads, concRest>>

\* return tmpOutName, nil (or the error), and the deferred os.Remove(tmpSourceName)
CReturn(p) ==
    /\ AtStep(cproc, p, "return")
    /\ files' = DeferredRemove(files, cproc[p].src)
    /\ cproc' = [cproc EXCEPT ![p].pc = "done",
                              ![p].path = IF cproc[p].err = "" THEN cproc[p].out ELSE ""]
    /\ UNCHANGED <<world, mem, vfsCache, nmut, reads, dwrites, concRest>>

\* The source file is rewritten while calls are under way.
CMutate(e) ==
    /\ nmut < MaxMutations
    /\ world[ConcLoc] # e
    /\ world' = [world EXCEPT ![ConcLoc] = e]
    /\ nmut' = nmut + 1
    /\ UNCHANGED <<mem, files, vfsCache, cproc, reads, dwrites, concRest>>

\* The next step of the call of process p.
CStep(p) ==
    \/ CStart(p)
    \/ CStat(p)
    \/ CReadDisk(p)
    \/ CPromote(p)
    \/ CWriteTemp(p)
    \/ CCreateOut(p)
    \/ CFetch(p)
    \/ CConvert(p)
    \/ CSetMem(p)
    \/ COpenDisk(p)
    \/ CWriteDisk(p)
    \/ CReturn(p)

NextConc ==
    \/ \E p \in CProcs : CStep(p)
    \/ \E e \in ConcContents : CMutate(e)

\* A new Manager on an empty cache directory; the source file exists.
InitConc ==
    /\ Init
    /\ world[<<"local", "/d/r">>] = "absent"
    /\ world[ConcLoc] = "c1"
    /\ world[<<"local", "/d/r.db">>] = "absent"

\* Concurrent GetSQLiteDB calls for one key, one per process, in every interleaving.
SpecConc == InitConc /\ [][NextConc]_vars

\* The processes whose calls run under a context that the caller may cancel.
CancelProcs == 1..2

\* The positions of a call that is under way, in cancellation order.
FetchPcs == {"fetch", "copy"}

\* source.GetFileStream(ctx, sourcePath, creds): getVFS, whose NewFs is the one
\* callee given ctx (what a backend does with a cancelled one is its own), then
\* v.OpenFile(relPath, os.O_RDONLY, 0), which takes no context.
XOpen(p) ==
    /\ AtStep(cproc, p, "fetch")
    /\ \E newFsFails \in IF cproc[p].ctxDone # "" THEN BOOLEAN ELSE {FALSE} :
       \E g \in {GetVFS(vfsCache, cproc[p].sourcePath, ConcRequest[2], <<"type">>,
                         newFsFails)} :
         /\ vfsCache' = g.cache
         /\ IF \/ g.err # ""
               \/ OpenFile(world, g.v, g.relPath) \in {"absent", "dir"}
            THEN /\ files' = RemoveOutput(files, cproc[p].out)
                 /\ cproc' = [cproc EXCEPT ![p].pc = "done", ![p].err = "fetch error"]
            ELSE /\ cproc' = [cproc EXCEPT ![p].pc = "copy"]
                 /\ UNCHANGED files
    /\ UNCHANGED <<world, mem, nmut, reads, dwrites, concRest>>

\* os.CreateTemp(m.cacheDir, "flight2_source_*"+ext), io.Copy(tmpSource, rc),
\* tmpSource.Close(): the copy takes no context either.
XCopy(p) ==
    /\ AtStep(cproc, p, "copy")
    /\ LET entry == SourceEntry(world, cproc[p].sourcePath, ConcRequest[2])
           name == TempName(files, "flight2_source_", ToLower(Ext(cproc[p].sourcePath)))
       IN  /\ files' = Put(files, name, entry)
           /\ cproc' = [cproc EXCEPT ![p].pc = "convert", ![p].src = name,
                                     ![p].fetched = entry]
    /\ UNCHANGED <<world, mem, vfsCache, nmut, reads, dwrites, concRest>>

\* The caller cancels the context of a call that is under way; ctxDone keeps
\* the position the call was at.
Cancel(p) ==
    /\ cproc[p].pc \in (StepPcs \cup FetchPcs) \ {"idle"}
    /\ cproc[p].ctxDone = ""
    /\ cproc' = [cproc EXCEPT ![p].ctxDone = cproc[p].pc]
    /\ UNCHANGED <<world, mem, files, vfsCache, nmut, reads, dwrites, concRest>>

\* The next step of the call of process p, the fetch in its two parts.
XStep(p) ==
    \/ CStart(p)
    \/ CStat(p)
    \/ CReadDisk(p)
    \/ CPromote(p)
    \/ CWriteTemp(p)
    \/ CCreateOut(p)
    \/ XOpen(p)
    \/ XCopy(p)
    \/ CConvert(p)
    \/ CSetMem(p)
    \/ COpenDisk(p)
    \/ CWriteDisk(p)
    \/ CReturn(p)

NextCancel ==
    \/ \E p \in CancelProcs : XStep(p)
    \/ \E p \in CancelProcs : Cancel(p)

\* Concurrent GetSQLiteDB calls whose callers may cancel them at any position.
SpecCancel == InitConc /\ [][NextCancel]_vars

\* One direct getVFS call (ListEntries, GetFileStream), the lock held throughout.
GetVFSCall(sourcePath, creds, order, newFsFails) ==
    /\ nvfs < MaxVfsCalls
    /\ \E g \in {GetVFS(vfsCache, sourcePath, creds, order, newFsFails)} :
           /\ vfsCache' = g.cache
           /\ lastV' = [sourcePath |-> sourcePath, creds |-> creds, order |-> order,
                        called |-> TRUE, fsRoot |-> g.fsRoot, relPath |-> g.relPath,
                        hash |-> g.hash, err |-> g.err, v |-> g.v]
    /\ prevV' = lastV
    /\ nvfs' = nvfs + 1
    /\ UNCHANGED <<cacheVars, resVars, srvVars, lockVars, concVars>>

NextVFS ==
    \E sourcePath \in VfsPaths, creds \in VfsCreds, newFsFails \in BOOLEAN :
        \E order \in Perms(DOMAIN creds) :
            GetVFSCall(sourcePath, creds, order, newFsFails)

\* The handle cache alone, under direct getVFS calls.
SpecVFS == Init /\ [][NextVFS]_vars

\* The paths and credentials whose decomposition is checked: absolute and
\* relative local paths, URLs with and without a path, cloud paths with no,
\* one and two leading slashes.
DecompPaths ==
    {"/d/r.csv", "r.csv", "http://h/x.csv", "https://h/d/y", "http://h", "b.DB",
     "/x.bin", "//x.bin"}

CHttp == [type |-> StrVal("http")]
CHttps == [type |-> StrVal("https")]

DecompCreds == {CLocal, CS3, CNoType, CHttp, CHttps, CBogus}

NextDecomp ==
    \E sourcePath \in DecompPaths, creds \in DecompCreds, newFsFails \in BOOLEAN :
        \E order \in Perms(DOMAIN creds) :
            GetVFSCall(sourcePath, creds, order, newFsFails)

\* Direct getVFS calls over the paths and types that decompose differently.
SpecDecomp == InitLock /\ [][NextDecomp]_vars


\* Credential maps of one type with different keys and values, two of which
\* write the same characters into the digest: "a" "bc" and "ab" "c".
CSplitA == [type |-> StrVal("s3"), a |-> StrVal("bc")]
CSplitB == [type |-> StrVal("s3"), ab |-> StrVal("c")]
CTwoKeys == [type |-> StrVal("s3"), a |-> StrVal("b"), c |-> StrVal("d")]

HashCreds == {CS3, CS3b, CSplitA, CSplitB, CTwoKeys, CLocal}

HashPaths == {"b.DB", "/x.bin"}

NextHash ==
    \E sourcePath \in HashPaths, creds \in HashCreds, newFsFails \in BOOLEAN :
        \E order \in Perms(DOMAIN creds) :
            GetVFSCall(sourcePath, creds, order, newFsFails)

\* Direct getVFS calls over credential maps with different key sets.
SpecHash == InitLock /\ [][NextHash]_vars


(***************************************************************************)
(* internal/server: the Server                                             *)
(***************************************************************************)
\* The process before NewServer has built its Server: an empty cache, no
\* handle, nothing under way.
InitNoServer ==
    /\ world = (CHOOSE w \in Worlds : /\ w[<<"local", "/d/r">>] = "absent"
                                      /\ w[<<"local", "/d/r.csv">>] = "c1"
                                      /\ w[<<"local", "/d/r.db">>] = "c2")
    /\ mem = EmptyMap
    /\ files = EmptyMap
    /\ vfsCache = EmptyMap
    /\ last = NoCall
    /\ prev = NoCall
    /\ gap = {}
    /\ wrote = {}
    /\ ncalls = 0
    /\ nmut = 0
    /\ lastV = NoVfsCall
    /\ prevV = NoVfsCall
    /\ nvfs = 0
    /\ InitProcs

\* The URLs that are added to the history.
HistoryUrls == {"/u1", "/u2", "/u3"}

serverRest == <<cacheVars, vfsCache, vfsVars, resVars, lockVars, concVars>>

\* h.mu.Lock() of Add(url) or GetRecent() returns.
HLock(p, op, url) ==
    /\ hproc[p].pc = "idle"
    /\ hproc[p].n < MaxHistoryOps
    /\ HistoryLock(historyMu)
    /\ historyMu' = p
    /\ hproc' = [hproc EXCEPT ![p] =
           [IdleH EXCEPT !.pc = IF op = "Add" THEN "dedup" ELSE "copy",
                         !.op = op, !.url = url, !.before = history.items,
                         !.n = hproc[p].n]]
    /\ UNCHANGED <<history, cfg, resp, drv, serverRest>>

\* Add: the loop that removes url if it is there
HDedup(p) ==
    /\ hproc[p].pc = "dedup"
    /\ history' = [history EXCEPT !.items = Dedup(history.items, hproc[p].url)]
    /\ hproc' = [hproc EXCEPT ![p].pc = "append"]
    /\ UNCHANGED <<historyMu, cfg, resp, drv, serverRest>>

\* Add: the append, the cut to limit, and the deferred h.mu.Unlock()
HAppend(p) ==
    /\ hproc[p].pc = "append"
    /\ history' = [history EXCEPT
                      !.items = AppendTrim(history.items, hproc[p].url, history.limit)]
    /\ historyMu' = 0
    /\ hproc' = [hproc EXCEPT ![p].pc = "idle", ![p].after = history'.items,
                              ![p].n = hproc[p].n + 1]
    /\ UNCHANGED <<cfg, resp, drv, serverRest>>

\* GetRecent: the copy in reverse order, and the deferred h.mu.Unlock()
HGetRecent(p) ==
    /\ hproc[p].pc = "copy"
    /\ historyMu' = 0
    /\ hproc' = [hproc EXCEPT ![p].pc = "idle", ![p].res = Reversed(history.items),
                              ![p].after = history.items, ![p].n = hproc[p].n + 1]
    /\ UNCHANGED <<history, cfg, resp, drv, serverRest>>

NextHistory ==
    \/ \E p \in HProcs, url \in HistoryUrls : HLock(p, "Add", url)
    \/ \E p \in HProcs : HLock(p, "GetRecent", "")
    \/ \E p \in HProcs : HDedup(p)
    \/ \E p \in HProcs : HAppend(p)
    \/ \E p \in HProcs : HGetRecent(p)

\* A history that NewRequestHistory made, already holding some requests.
InitHistory ==
    /\ InitNoServer
    /\ cfg = [autoSelectTb0 |-> FALSE, localOnly |-> FALSE]
    /\ \E limit \in 1..HistoryLimit, first \in HistoryUrls :
           history \in {NewRequestHistory(limit),
                        [NewRequestHistory(limit) EXCEPT !.items = <<first>>]}

\* Concurrent Add and GetRecent calls on one RequestHistory.
SpecHistory == InitHistory /\ [][NextHistory]_vars

\* listTables on a database that holds the tables names, served under dbUrlPath.
ListTablesCall(dbUrlPath, names, queryFails, tables) ==
    /\ resp' = [kind |-> "listTables", dbUrlPath |-> dbUrlPath, names |-> names,
                queryFails |-> queryFails, tables |-> tables,
                answer |-> ListTables(cfg.autoSelectTb0, dbUrlPath, queryFails, tables)]
    /\ UNCHANGED <<cfg, histVars, drv, serverRest>>

NextTables ==
    \/ \E dbUrlPath \in DbUrlPaths, names \in SUBSET TableNames :
         \E tables \in Collected(QueryRows(names)) :
            ListTablesCall(dbUrlPath, names, FALSE, tables)
    \/ \E dbUrlPath \in DbUrlPaths, names \in SUBSET TableNames :
            ListTablesCall(dbUrlPath, names, TRUE, <<>>)

\* A Server built by NewServer with either value of autoSelectTb0.
InitTables ==
    /\ InitNoServer
    /\ \E auto \in BOOLEAN : cfg = [autoSelectTb0 |-> auto, localOnly |-> FALSE]
    /\ history = NewRequestHistory(HistoryLimit)

\* Requests for the table list of a database.
SpecTables == InitTables /\ [][NextTables]_vars

\* r.RemoteAddr: host:port as net/http sets it, and the bare host that a
\* wrapper may have put there.
RemoteAddrs ==
    {"127.0.0.1:5000", "[::1]:5000", "localhost:5000", "10.0.0.7:5000",
     "127.0.0.2:5000", "[::ffff:127.0.0.1]:5000", "127.0.0.1", "::1", "10.0.0.7"}

Methods == {"GET", "POST"}

UrlPaths ==
    {"/app/debug/env", "/app/credentials/manage", "/app/credentials",
     "/app/browse/a/x", "/app/test/banquet/tb0", "/app/", "/d/r.csv"}

\* The handler that Router returned serves one request.
ServeHTTP(req) ==
    /\ resp' = [kind |-> "route", req |-> req, answer |-> Route(cfg.localOnly, req)]
    /\ UNCHANGED <<cfg, histVars, drv, serverRest>>

NextLocalOnly ==
    \E method \in Methods, urlPath \in UrlPaths, remote \in RemoteAddrs :
        ServeHTTP([method |-> method, path |-> urlPath, remote |-> remote])

\* A Server built by NewServer with either value of localOnly.
InitLocalOnly ==
    /\ InitNoServer
    /\ \E localOnly \in BOOLEAN : cfg = [autoSelectTb0 |-> FALSE, localOnly |-> localOnly]
    /\ history = NewRequestHistory(HistoryLimit)

\* Requests from local and remote addresses to the handler of Router.
SpecLocalOnly == InitLocalOnly /\ [][NextLocalOnly]_vars

\* What handleBanquet has made of a request URL when it calls GetSQLiteDB:
\* r.URL.Path, the alias with its credentials and the source path, bq.Table
\* and bq.DataSetPath.
BanquetRequests ==
    {[url |-> "/a@/d/r.csv", q |-> <<"a", CLocal, "/d/r.csv">>,
      table |-> "", dataSetPath |-> "/d/r.csv"],
     [url |-> "/a@/d/r.csv/tb0", q |-> <<"a", CLocal, "/d/r.csv">>,
      table |-> "tb0", dataSetPath |-> "/d/r.csv"],
     [url |-> "/a@/d/r.db", q |-> <<"a", CLocal, "/d/r.db">>,
      table |-> "sqlite_master", dataSetPath |-> "/d/r.db"],
     [url |-> "/a@/x.bin", q |-> <<"a", CS3, "/x.bin">>,
      table |-> "", dataSetPath |-> "/x.bin"]}

\* The tables the served database can hold.
BanquetTables == {{"tb0"}, {"other", "tb0"}}

\* serveDatabase: sql.Open, then listTables or queryTable, each with the ways
\* it can end.
ServeDatabase(autoSelectTb0, table, dbUrlPath, openFails, queryFails, tables) ==
    IF openFails
    THEN [status |-> 500, target |-> "", links |-> <<>>]
    ELSE IF table = "sqlite_master" \/ table = ""
    THEN ListTables(autoSelectTb0, dbUrlPath, queryFails, tables)
    ELSE [status |-> IF queryFails THEN 500 ELSE 200, target |-> "", links |-> <<>>]

\* The answer to a failed GetSQLiteDB: the page with the aliases and the
\* recent requests for a fetch error, the error text otherwise.
BanquetError(text, recent) ==
    IF Contains(text, "fetch error") \/ Contains(text, "failed to create fs")
    THEN [status |-> 500, target |-> "", links |-> recent]
    ELSE [status |-> 500, target |-> "", links |-> <<>>]

\* A handler that leaves the file it was given.
HandlerRemoveSkipped(fs, dbPath) == fs

\* defer os.Remove(dbPath), run when handleBanquet returns
HandlerRemove(fs, dbPath) == Remove(fs, dbPath)

\* The ways serveDatabase can end for a database holding one of BanquetTables.
ServeAnswers(autoSelectTb0, table, dbUrlPath) ==
    {ServeDatabase(autoSelectTb0, table, dbUrlPath, openFails, queryFails, tables) :
        openFails \in BOOLEAN, queryFails \in BOOLEAN,
        tables \in UNION {Collected(QueryRows(names)) : names \in BanquetTables}}

\* handleBanquet from the GetSQLiteDB call to its return.
HandleBanquet(req, order) ==
    /\ ncalls < MaxCalls
    /\ HistoryLock(historyMu)
    /\ \E g \in GetSQLiteDB(world, mem, files, vfsCache, req.q[1], req.q[3], req.q[2], order) :
         \E answer \in IF g.r.err # ""
                       THEN {BanquetError(ErrorText(g.r.err, g.r.driver,
                                                    ToLower(Ext(g.r.resolved))),
                                          Reversed(history.items))}
                       ELSE ServeAnswers(cfg.autoSelectTb0, req.table, req.dataSetPath) :
             /\ mem' = g.mem
             /\ vfsCache' = g.vfs
             /\ last' = [g.r EXCEPT !.gap = gap]
             /\ wrote' = IF g.r.memSet = "ok" \/ g.r.diskWrite \in {"ok", "truncated"}
                         THEN wrote \cup {<<g.r.key, req.q[1], req.q[3]>>}
                         ELSE wrote
             /\ history' = IF g.r.err # "" THEN history
                           ELSE [history EXCEPT !.items =
                                    AppendTrim(Dedup(history.items, req.url), req.url,
                                               history.limit)]
             /\ files' = IF g.r.err # "" THEN g.files
                         ELSE HandlerRemove(g.files, g.r.path)
             /\ resp' = [kind |-> "banquet", req |-> req, left |-> DOMAIN g.files,
                         answer |-> answer]
    /\ prev' = last
    /\ gap' = {}
    /\ ncalls' = ncalls + 1
    /\ UNCHANGED <<world, nmut, vfsVars, resVars, lockVars, concVars,
                   cfg, historyMu, hproc, drv>>

NextBanquet ==
    \E req \in BanquetRequests : \E order \in Perms(DOMAIN req.q[2]) :
        HandleBanquet(req, order)

\* A Server built by NewServer, its history already holding a request or not.
InitBanquet ==
    /\ InitNoServer
    /\ \E auto \in BOOLEAN : cfg = [autoSelectTb0 |-> auto, localOnly |-> FALSE]
    /\ history \in {NewRequestHistory(HistoryLimit),
                    [NewRequestHistory(HistoryLimit) EXCEPT !.items = <<"/a@/d/r.db">>]}

\* Banquet requests served one after the other.
SpecBanquet == InitBanquet /\ [][NextBanquet]_vars


(***************************************************************************)
(* internal/dataset: getDriver on its own                                  *)
(***************************************************************************)
\* The extensions getDriver is applied to.
DriverExts ==
    {".csv", ".xlsx", ".xls", ".zip", ".html", ".htm", ".json", ".txt",
     ".db", ".sqlite", ".sqlite3", "", ".CSV", ".bin", ".csvx"}

\* getDriver(ext); drv keeps the two latest applications.
GetDriverCall(ext) ==
    /\ drv' = Append(IF Len(drv) = 2 THEN Tail(drv) ELSE drv,
                     [ext |-> ext, driver |-> getDriver(ext)])
    /\ UNCHANGED <<cfg, histVars, resp, serverRest>>

NextDriver == \E ext \in DriverExts : GetDriverCall(ext)

\* Any Server NewServer builds, its history empty or not.
InitDriver ==
    /\ InitNoServer
    /\ cfg \in [autoSelectTb0 : BOOLEAN, localOnly : BOOLEAN]
    /\ history \in {NewRequestHistory(HistoryLimit),
                    [NewRequestHistory(HistoryLimit) EXCEPT !.items = <<"/a@/d/r.db">>]}

\* getDriver applied to one extension after the other.
SpecDriver == InitDriver /\ [][NextDriver]_vars


(***************************************************************************)
(* Properties of GetSQLiteDB (under Spec)                                  *)
(***************************************************************************)
Called(r) == r.tier # ""

Ok(r) == Called(r) /\ r.err = ""

Ran(r) == r.tier = "miss"

Hit(r) == r.tier \in {"memory", "disk"}

SameRequest(a, b) ==
    a.alias = b.alias /\ a.sourcePath = b.sourcePath /\ a.creds = b.creds

\* prev and last are two successive calls with no change of the sources between.
Successive == Called(prev) /\ Called(last) /\ "mutate" \notin last.gap

\* A cache write of prev took effect and is readable when last looks for it.
Persisted ==
    \/ prev.memSet = "ok" /\ "evict" \notin last.gap
    \/ prev.diskWrite = "ok" /\ last.diskRead # "failed"

IsLocal(r) == TypeAssert(r.creds).ok /\ TypeAssert(r.creds).s = "local"

NoScratchLeft(r) == \A n \in r.made : n \notin DOMAIN files

IsTemp(path, prefix) == HasPrefix(path, CacheDir \o "/" \o prefix)

\* C1 as the claim states it: two successive calls for one (alias, sourcePath,
\* credentials) and an unchanged source run the pipeline exactly once (at most
\* one fetch, at most one converter), and the second is served from a tier.
C1_Original ==
    (Successive /\ SameRequest(prev, last))
        => /\ Ran(prev) /\ Hit(last)
           /\ prev.fetches + last.fetches <= 1
           /\ prev.opens + last.opens <= 1

\* C1 (amended): for a fixed (alias, sourcePath, credentials) and an unchanged
\* source, if the first of two successive calls runs the pipeline and succeeds,
\* and one of its cache writes took effect and is readable at the second call,
\* then the second call is served from the memory or the disk tier and runs no
\* fetch and no converter: the pipeline ran once, with at most one fetch and at
\* most one converter invocation.
C1_IdempotentCaching ==
    (Successive /\ SameRequest(prev, last) /\ Ok(prev) /\ Ran(prev) /\ Persisted)
        => /\ Hit(last)
           /\ last.fetches = 0 /\ last.opens = 0 /\ last.imports = 0
           /\ prev.fetches <= 1 /\ prev.opens <= 1 /\ prev.imports <= 1
           /\ last.key = prev.key

C1_Witness ==
    /\ Successive /\ SameRequest(prev, last)
    /\ Ok(prev) /\ Ran(prev) /\ prev.fetches = 1 /\ prev.opens = 1
    /\ Ok(last) /\ last.tier = "memory"

\* C2: two calls with different aliases and the same sourcePath use different
\* memory keys and different disk file names, and a call is never served from a
\* tier entry that a call of another alias for that sourcePath wrote.
C2_TenantIsolation ==
    /\ (Called(prev) /\ Called(last) /\ prev.alias # last.alias
            /\ prev.sourcePath = last.sourcePath)
           => /\ prev.key # last.key
              /\ prev.diskPath # last.diskPath
              /\ prev.key \in DOMAIN mem => prev.key # last.key
              /\ prev.diskPath \in DOMAIN files => prev.diskPath # last.diskPath
    \* the entry a hit is served from has writers, and none of them is a call of
    \* another alias for this sourcePath
    /\ Hit(last) => /\ \E w \in wrote : w[1] = last.key
                    /\ \A w \in wrote :
                           (w[3] = last.sourcePath /\ w[2] # last.alias)
                               => w[1] # last.key /\ DiskPath(w[1]) # last.diskPath

C2_Witness ==
    /\ Ok(prev) /\ Ok(last)
    /\ prev.alias # last.alias /\ prev.sourcePath = last.sourcePath
    /\ prev.memSet = "ok" /\ prev.diskWrite = "ok"
    /\ last.gap = {} /\ last.tier = "miss"

\* C3 as the claim states it: two requests have the same memory key and the same
\* disk file if and only if their aliases are identical and their resolved
\* sourcePaths are identical.
C3_KeyInjective ==
    (Called(prev) /\ Called(last))
        => ((prev.key = last.key /\ prev.diskPath = last.diskPath)
                <=> (prev.alias = last.alias /\ prev.resolved = last.resolved))

\* The directory of p holds p.csv and no other candidate of p.
OnlyCsv(p) ==
    /\ Stat(world, p) = "absent"
    /\ Stat(world, p \o ".csv") \notin {"absent", "dir"}
    /\ \A i \in 2..Len(supportedExtensions) :
           Stat(world, p \o supportedExtensions[i]) = "absent"

\* C4: with credentials of type "local" and a directory holding only report.csv,
\* a request for report resolves to report.csv and computes the cache key of a
\* request for report.csv; of two such successive requests of one alias the later
\* is served from the entry the earlier created, when that entry persists.
C4_ExtensionResolution ==
    /\ (Called(last) /\ IsLocal(last) /\ gap = {} /\ OnlyCsv(last.sourcePath))
           => /\ last.resolved = last.sourcePath \o ".csv"
              /\ last.key = last.alias \o ":" \o last.sourcePath \o ".csv"
    /\ \A p \in {prev.sourcePath, last.sourcePath} :
           (/\ Successive /\ gap = {} /\ IsLocal(prev) /\ IsLocal(last)
            /\ prev.alias = last.alias /\ OnlyCsv(p)
            /\ {prev.sourcePath, last.sourcePath} = {p, p \o ".csv"})
               => /\ prev.key = last.key
                  /\ prev.resolved = last.resolved
                  /\ (Ok(prev) /\ Ran(prev) /\ Persisted)
                         => Hit(last) /\ last.fetches = 0 /\ last.opens = 0

C4_Witness ==
    /\ Successive /\ gap = {} /\ IsLocal(prev) /\ IsLocal(last)
    /\ OnlyCsv(prev.sourcePath)
    /\ last.sourcePath = prev.sourcePath \o ".csv"
    /\ prev.alias = last.alias
    /\ Ok(prev) /\ Ran(prev) /\ Ok(last) /\ Hit(last)

\* The errors of the miss pipeline, from the creation of the output file to the
\* import.
PipelineErrors ==
    {"create output temp", "open dir", "failed to open filesystem converter",
     "conversion failed", "fetch error", "create source temp",
     "failed to write source temp file", "open source temp", "copy to output",
     "unsupported file type", "failed to open converter"}

\* C6: when GetSQLiteDB fails in the miss pipeline, the output scratch file and
\* the input scratch file it created are gone when the error is returned, and the
\* call wrote neither the memory tier nor the disk tier for its key.
C6_FailureLeavesNothing ==
    (Ran(last) /\ last.err \in PipelineErrors)
        => /\ NoScratchLeft(last)
           /\ last.path = ""
           /\ last.memSet = "none" /\ last.diskWrite = "none"
           /\ last.key \notin DOMAIN mem
           /\ last.diskRead = "none" => last.diskPath \notin DOMAIN files

C6_Witness ==
    /\ Ran(last) /\ last.err = "failed to open converter"
    /\ Cardinality(last.made) = 2
    /\ last.opens = 1

\* C7 as the claim states it: every error return of GetSQLiteDB leaves no scratch
\* file created by that call on disk.
C7_NoScratchAfterError ==
    (Called(last) /\ last.err # "") => NoScratchLeft(last)

\* The extensions of the driver table and the pass-through extensions.
DriverTableExts == {".csv", ".xlsx", ".xls", ".zip", ".html", ".htm", ".json", ".txt"}

SqliteExts == {".db", ".sqlite", ".sqlite3"}

\* C8: a fetched source whose lower-cased extension is neither a pass-through
\* extension nor in the driver table makes GetSQLiteDB return the unsupported
\* file type error, with no converter invoked, no cache tier written and no
\* output or input scratch file left.
C8_UnsupportedFormat ==
    (Ran(last) /\ last.fetched # ""
        /\ ToLower(Ext(last.resolved)) \notin (DriverTableExts \cup SqliteExts))
        => /\ last.err = "unsupported file type"
           /\ last.opens = 0 /\ last.imports = 0
           /\ last.path = ""
           /\ last.memSet = "none" /\ last.diskWrite = "none"
           /\ last.key \notin DOMAIN mem
           /\ last.diskRead = "none" => last.diskPath \notin DOMAIN files
           /\ NoScratchLeft(last)

C8_Witness ==
    /\ Ran(last) /\ last.err = "unsupported file type"
    /\ Ext(last.resolved) = ".bin"
    /\ last.fetched = "c5"
    /\ Cardinality(last.made) = 2

\* C9: for a fetched source whose extension is .db, .sqlite or .sqlite3 (in any
\* case), no converter is opened and no import runs, and on success the returned
\* file and the bytes each cache write stored are the fetched source bytes.
C9_PassThrough ==
    (Ran(last) /\ last.fetched # "" /\ ToLower(Ext(last.resolved)) \in SqliteExts)
        => /\ last.opens = 0 /\ last.imports = 0
           /\ last.err \in {"", "open source temp", "copy to output",
                            "failed to read converted db"}
           /\ (IsLocal(last) /\ gap = {}) => last.fetched = Stat(world, last.resolved)
           /\ last.err = ""
                  => /\ last.path \in DOMAIN files => files[last.path] = last.fetched
                     /\ (last.memSet = "ok" /\ last.key \in DOMAIN mem)
                            => mem[last.key] = last.fetched
                     /\ last.diskWrite = "ok" => files[last.diskPath] = last.fetched

C9_Witness ==
    /\ Ran(last) /\ Ok(last) /\ Ext(last.resolved) = ".db"
    /\ last.memSet = "ok" /\ last.diskWrite = "ok"
    /\ last.path \in DOMAIN files /\ files[last.path] = "c2"
    /\ mem[last.key] = "c2" /\ files[last.diskPath] = "c2"

\* C10: the path GetSQLiteDB returns is a freshly created temp file, flight2_db_*
\* after a miss and flight2_cache_* after a hit, and never the disk-tier file of a
\* key; after the caller removes it, each tier still holds what the call stored in
\* or read from it, and the next call for the same key is a hit.
C10_ReturnedFileIsScratch ==
    /\ Ok(last)
           => /\ last.fresh
              /\ Ran(last) => IsTemp(last.path, "flight2_db_")
              /\ Hit(last) => IsTemp(last.path, "flight2_cache_")
              /\ last.path \notin {last.diskPath, prev.diskPath}
              /\ \A w \in wrote : last.path # DiskPath(w[1])
    /\ (Ok(last) /\ gap = {"remove"})
           => /\ last.path \notin DOMAIN files
              /\ (last.memSet = "ok" \/ last.tier = "memory") => last.key \in DOMAIN mem
              /\ (last.diskWrite = "ok" \/ last.tier = "disk")
                     => last.diskPath \in DOMAIN files
              /\ last.diskWrite = "ok" => files[last.diskPath] # ""
    /\ (Ok(prev) /\ Called(last) /\ last.gap = {"remove"} /\ prev.key = last.key
            /\ \/ prev.memSet = "ok"
               \/ prev.tier = "memory"
               \/ (prev.diskWrite = "ok" \/ prev.tier = "disk") /\ last.diskRead # "failed")
           => Hit(last)

C10_Witness ==
    /\ Ok(prev) /\ Ran(prev) /\ prev.memSet = "ok" /\ prev.diskWrite = "ok"
    /\ last.gap = {"remove"} /\ prev.key = last.key
    /\ Ok(last) /\ Hit(last) /\ last.fresh
    /\ IsTemp(prev.path, "flight2_db_") /\ IsTemp(last.path, "flight2_cache_")
    /\ prev.path \notin DOMAIN files

(***************************************************************************)
(* Properties of getVFS (under SpecVFS)                                    *)
(***************************************************************************)
OkV(r) == r.called /\ r.err = ""

\* The two latest getVFS calls succeeded with one backend type and one root.
SameBackend ==
    /\ OkV(prevV) /\ OkV(lastV)
    /\ prevV.v.fsType = lastV.v.fsType
    /\ prevV.fsRoot = lastV.fsRoot

\* The keys on which two credential maps over the same keys differ.
DifferingKeys(c1, c2) == {k \in DOMAIN c1 : c1[k] # c2[k]}

DiffersInOneValue(c1, c2) ==
    DOMAIN c1 = DOMAIN c2 /\ Cardinality(DifferingKeys(c1, c2)) = 1

\* C5 as the claim states it: the same backend type, credential map (in any key
\* order) and root give the same handle; a credential map differing in exactly
\* one value gives a distinct handle.
C5_Original ==
    SameBackend
        => /\ prevV.creds = lastV.creds => prevV.v = lastV.v
           /\ DiffersInOneValue(prevV.creds, lastV.creds) => prevV.v.id # lastV.v.id

\* C5 (amended): two getVFS calls with the same backend type, the same
\* credential map in any key iteration order and the same root return the same
\* handle; a call whose credential map differs in exactly one value, whose
\* string-formatted forms differ, returns a distinct handle.
C5_HandleReuse ==
    SameBackend
        => /\ prevV.creds = lastV.creds => prevV.v = lastV.v /\ prevV.hash = lastV.hash
           /\ (/\ DiffersInOneValue(prevV.creds, lastV.creds)
               /\ \A k \in DifferingKeys(prevV.creds, lastV.creds) :
                      Sprint(prevV.creds[k]) # Sprint(lastV.creds[k]))
                  => prevV.v.id # lastV.v.id

C5_Witness ==
    /\ SameBackend
    /\ prevV.creds = lastV.creds /\ prevV.order # lastV.order
    /\ prevV.v = lastV.v /\ lastV.v.id = 1


(***************************************************************************)
(* Further properties of GetSQLiteDB (under Spec)                          *)
(***************************************************************************)
\* The bytes a successful pipeline run of call r leaves in its output file.
Artifact(r) ==
    IF r.fetched = "" THEN "filesystem(dir)"
    ELSE IF ToLower(Ext(r.resolved)) \in SqliteExts THEN r.fetched
    ELSE getDriver(ToLower(Ext(r.resolved))) \o "(" \o r.fetched \o ")"

\* C11: after a successful conversion, if the memory-tier Set fails, the disk-tier
\* write fails, or both, GetSQLiteDB still returns the output scratch path with no
\* error, and the output file exists with the full converted contents.
C11_PersistenceNonFatal ==
    (Ran(last) /\ last.err \notin PipelineErrors \cup {"failed to read converted db"}
        /\ (last.memSet = "failed" \/ last.diskWrite \in {"failed", "truncated"}))
        => /\ last.err = ""
           /\ IsTemp(last.path, "flight2_db_")
           /\ gap = {} => /\ last.path \in DOMAIN files
                          /\ files[last.path] = Artifact(last)
                          /\ files[last.path] # ""

C11_Witness ==
    /\ Ran(last) /\ Ok(last)
    /\ last.memSet = "failed" /\ last.diskWrite = "failed"
    /\ last.path \in DOMAIN files /\ files[last.path] = "csv(c1)"
    /\ last.key \notin DOMAIN mem /\ last.diskPath \notin DOMAIN files

\* C17: a call whose key is in the memory tier is served from it: it returns a new
\* temp file holding the cached bytes, reads no disk-tier file, leaves the handle
\* cache and the tiers as they are, fetches nothing and invokes no converter.
C17_MemoryFirst ==
    [][(ncalls' = ncalls + 1 /\ last'.key \in DOMAIN mem)
          => /\ last'.tier = "memory"
             /\ last'.diskRead = "none"
             /\ last'.fetches = 0 /\ last'.opens = 0 /\ last'.imports = 0
             /\ vfsCache' = vfsCache
             /\ mem' = mem
             /\ \A f \in DOMAIN files : f \in DOMAIN files' /\ files'[f] = files[f]
             /\ last'.err = "" => /\ last'.path \notin DOMAIN files
                                  /\ files' = Put(files, last'.path, mem[last'.key])]_vars

C17_Witness ==
    /\ last.tier = "memory" /\ Ok(last)
    /\ last.diskPath \in DOMAIN files
    /\ last.path \in DOMAIN files
    /\ files[last.path] = mem[last.key]
    /\ files[last.diskPath] # mem[last.key]


(***************************************************************************)
(* Properties of the disk tier after a restart (under SpecRestart)         *)
(***************************************************************************)
\* C13: the disk file name is the md5 hex of the key plus ".sqlite", a function
\* of the key alone, and the first call of a new Manager on the same cache
\* directory, its memory tier empty, serves a key whose disk file exists and is
\* readable from disk, without fetch and without converter.
C13_RestartKeepsDisk ==
    /\ [](Called(last) => last.diskPath = "/cache/md5(" \o last.key \o ").sqlite")
    /\ []((Called(prev) /\ Called(last) /\ prev.key = last.key)
             => prev.diskPath = last.diskPath)
    /\ [][(ncalls = 0 /\ ncalls' = 1 /\ last'.diskPath \in DOMAIN files
              /\ last'.diskRead # "failed")
             => /\ mem = EmptyMap
                /\ last'.tier = "disk"
                /\ last'.fetches = 0 /\ last'.opens = 0 /\ last'.imports = 0
                /\ files'[last'.diskPath] = files[last'.diskPath]
                /\ last'.err = "" => files'[last'.path] = files[last'.diskPath]]_vars

C13_Witness ==
    /\ ncalls = 1 /\ prev = NoCall
    /\ last.tier = "disk" /\ Ok(last)
    /\ last.fetches = 0 /\ last.opens = 0
    /\ last.path \in DOMAIN files
    /\ files[last.path] = files[last.diskPath]
    /\ files[last.path] = "csv(c1)"

\* C18: on a memory miss where the disk-tier file for the key exists and is read,
\* GetSQLiteDB runs no pipeline, stores the file's bytes in the memory tier under
\* the key (when the Set succeeds) and returns a temp file with those bytes; the
\* next call for that key, the entry not evicted, is served from the memory tier.
C18_DiskHitPromotes ==
    /\ [][(ncalls' = ncalls + 1 /\ last'.key \notin DOMAIN mem
              /\ last'.diskPath \in DOMAIN files /\ last'.diskRead # "failed")
             => /\ last'.tier = "disk"
                /\ last'.fetches = 0 /\ last'.opens = 0 /\ last'.imports = 0
                /\ vfsCache' = vfsCache
                /\ last'.memSet = "ok"
                       => mem' = Put(mem, last'.key, files[last'.diskPath])
                /\ last'.err = ""
                       => /\ last'.path \notin DOMAIN files
                          /\ files' = Put(files, last'.path, files[last'.diskPath])]_vars
    /\ []((prev.tier = "disk" /\ prev.memSet = "ok" /\ Called(last)
              /\ last.key = prev.key /\ "evict" \notin last.gap)
             => last.tier = "memory" /\ last.fetches = 0)

C18_Witness ==
    /\ prev.tier = "disk" /\ Ok(prev) /\ prev.memSet = "ok"
    /\ last.tier = "memory" /\ Ok(last) /\ last.key = prev.key
    /\ last.path \in DOMAIN files
    /\ files[last.path] = files[last.diskPath]
    /\ mem[last.key] = files[last.diskPath]


(***************************************************************************)
(* Further properties of getVFS (under SpecVFS)                            *)
(***************************************************************************)
\* The two latest getVFS calls succeeded with one backend type and one
\* credential map.
SameTypeAndCreds ==
    /\ OkV(prevV) /\ OkV(lastV)
    /\ prevV.v.fsType = lastV.v.fsType
    /\ prevV.creds = lastV.creds

\* C20 as the claim states it: for a fixed backend type and credential map,
\* getVFS calls with different source paths return the same handle.
C20_Original == SameTypeAndCreds => prevV.v = lastV.v

\* C20 (amended): for a fixed backend type and credential map, getVFS calls with
\* different source paths that have the same root (every path of a local or a
\* cloud backend; for http the paths of one scheme and host) return the same
\* handle, whose root is that root, and differ only in the relative path; a handle
\* stored for a hash is never replaced or removed.
C20_HandleRootFixed ==
    /\ [](SameTypeAndCreds
             => /\ lastV.v.fsType \notin {"http", "https"} => prevV.v = lastV.v
                /\ lastV.v.fsType = "local" => lastV.fsRoot = "/"
                /\ lastV.v.fsType \notin {"http", "https", "local"} => lastV.fsRoot = ""
                /\ prevV.fsRoot = lastV.fsRoot => prevV.v = lastV.v
                /\ lastV.v.fsRoot = lastV.fsRoot)
    /\ [][\A h \in DOMAIN vfsCache :
              h \in DOMAIN vfsCache' /\ vfsCache'[h] = vfsCache[h]]_vars

C20_Witness ==
    /\ SameTypeAndCreds
    /\ prevV.sourcePath # lastV.sourcePath
    /\ prevV.relPath # lastV.relPath
    /\ prevV.v = lastV.v
    /\ lastV.v.fsType = "s3"
    /\ Cardinality(DOMAIN vfsCache) = 1


(***************************************************************************)
(* Properties of the extension resolution (under SpecResolve)              *)
(***************************************************************************)
\* The probing order the claim gives.
ProbeOrder ==
    <<".csv", ".xlsx", ".xls", ".zip", ".html", ".htm", ".json", ".txt",
      ".db", ".sqlite", ".sqlite3">>

\* The entry of the local file system at the absolute path p.
LocalEntry(p) == IF <<"local", p>> \in DOMAIN world THEN world[<<"local", p>>] ELSE "absent"

\* The positions of the candidates of p that exist and are no directory.
FileCandidates(p) ==
    {i \in 1..Len(ProbeOrder) : LocalEntry(p \o ProbeOrder[i]) \notin {"absent", "dir"}}

\* C19: only when the credentials' type is the string "local" and sourcePath does
\* not exist, sourcePath is replaced by the first sourcePath+ext, in the order
\* .csv, .xlsx, .xls, .zip, .html, .htm, .json, .txt, .db, .sqlite, .sqlite3,
\* that exists and is not a directory; in every other case it is left unchanged.
C19_LocalExtensionResolution ==
    rx.called
        => LET p == rx.sourcePath
               probing == /\ "type" \in DOMAIN rx.creds
                          /\ rx.creds["type"] = [t |-> "string", s |-> "local"]
                          /\ LocalEntry(p) = "absent"
               hits == FileCandidates(p)
               first == CHOOSE i \in hits : \A j \in hits : i <= j
           IN  rx.out = IF probing /\ hits # {} THEN p \o ProbeOrder[first] ELSE p

C19_Witness ==
    /\ rx.called
    /\ rx.sourcePath = "/d/r" /\ rx.out = "/d/r.xls"
    /\ LocalEntry("/d/r.csv") = "dir"
    /\ LocalEntry("/d/r.xls") = "c1"


(***************************************************************************)
(* Concurrent getVFS calls                                                 *)
(***************************************************************************)
VFailures == {"backend type not found", "failed to create fs"}

VDone(p) == vproc[p].pc = "done"

VFailed(p) == VDone(p) /\ vproc[p].err \in VFailures

VReturnedOk(p) == VDone(p) /\ vproc[p].err = "" /\ vproc[p].v # NoHandle

SameInputs(p, q) ==
    /\ vproc[p].sourcePath = vproc[q].sourcePath
    /\ vproc[p].creds = vproc[q].creds

Creators == {created[i][2] : i \in 1..Len(created)}

\* C12: a failed handle creation does not poison the handle cache. A call whose
\* backend type is unknown never sets a backend up and returns an error; a call
\* that fails stores nothing (the step that fails changes neither the map nor
\* the record of created handles, and every entry of the map was stored by a
\* call that did not fail); a call that has returned no longer holds the lock;
\* and a call made with the inputs of a failed call, finding no entry under
\* its hash, goes on to attempt creation.
C12_FailedCreationNotCached ==
    /\ [](\A p \in VProcs :
            /\ (VDone(p) /\ vproc[p].fsType # "" /\ vproc[p].fsType \notin KnownBackends)
                   => vproc[p].err = "backend type not found" /\ vproc[p].v = NoHandle
            /\ vproc[p].err # "" => p \notin Creators /\ vproc[p].v = NoHandle
            /\ VDone(p) => vfsMu # p)
    /\ [](\A h \in DOMAIN vfsCache :
            \E i \in 1..Len(created) :
                created[i][1] = h /\ vproc[created[i][2]].err = "")
    /\ [][\A p \in VProcs :
            /\ (vproc[p].err = "" /\ vproc'[p].err \in VFailures)
                   => vfsCache' = vfsCache /\ created' = created
            /\ (vproc[p].pc = "unlock" /\ vproc'[p].pc = "done") => vfsMu' = 0
            /\ (/\ vproc[p].pc = "locked" /\ vproc'[p].pc # "locked"
                /\ vproc[p].hash \notin DOMAIN vfsCache
                /\ \E q \in VProcs : VFailed(q) /\ SameInputs(q, p))
                   => vproc'[p].pc = "create"]_vars

\* A call failed in NewFs, a call with the same inputs then created and stored
\* the handle, and a call with an unknown backend type failed.
C12_Witness ==
    \E p, q, r \in VProcs :
        /\ VFailed(p) /\ vproc[p].err = "failed to create fs"
        /\ VReturnedOk(q) /\ SameInputs(p, q) /\ vproc[q].order = vproc[p].order
        /\ vproc[q].hash \in DOMAIN vfsCache /\ vfsCache[vproc[q].hash] = vproc[q].v
        /\ VFailed(r) /\ vproc[r].err = "backend type not found"
        /\ vfsMu = 0

\* C14: under any interleaving of concurrent getVFS calls, a handle is created
\* at most once for a hash, and all calls with one hash that returned without
\* error returned the same handle instance.
C14_OneHandlePerHash ==
    /\ \A i, j \in 1..Len(created) : created[i][1] = created[j][1] => i = j
    /\ \A p, q \in VProcs :
           (VReturnedOk(p) /\ VReturnedOk(q) /\ vproc[p].hash = vproc[q].hash)
              => vproc[p].v = vproc[q].v

\* Three calls with one hash overlap: one has returned the handle, one holds
\* the lock having found it in the map, one waits for the lock.
C14_Witness ==
    \E p, q, r \in VProcs :
        /\ VReturnedOk(p) /\ p \in Creators
        /\ vproc[q].pc = "unlock" /\ vfsMu = q /\ vproc[q].v = vproc[p].v
        /\ vproc[r].pc = "hashed"
        /\ vproc[q].hash = vproc[p].hash /\ vproc[r].hash = vproc[p].hash
        /\ vproc[q].order # vproc[p].order

(***************************************************************************)
(* Concurrent GetSQLiteDB calls                                            *)
(***************************************************************************)
Missed(p) == cproc[p].tier = "miss"

\* The call has read its converted output back: it holds one run's artifact.
HasArtifact(p) ==
    Missed(p) /\ cproc[p].err = ""
             /\ cproc[p].pc \in {"setmem", "opendisk", "writedisk", "return", "done"}

RunArtifacts == {cproc[p].data : p \in {q \in CProcs : HasArtifact(q)}}

\* The scratch files a call has created and not handed over or removed.
Scratch(p) ==
    IF InPipeline(p) THEN {cproc[p].out, cproc[p].src} \ {""} ELSE {}

\* C15: concurrent misses never corrupt the disk tier. Every read of the disk
\* entry by a call on the disk-hit path returned the complete bytes of one
\* pipeline run's artifact, and when at least two calls have written the disk
\* entry and no write is under way, the entry holds the bytes of the last
\* call that wrote.
C15_DiskTierNeverCorrupt ==
    /\ \A rd \in reads : rd[2] \in RunArtifacts
    /\ (Len(dwrites) >= 2 /\ \A p \in CProcs : cproc[p].pc # "writedisk")
          => \A p \in CProcs :
                cproc[p].diskPath # ""
                   => /\ cproc[p].diskPath \in DOMAIN files
                      /\ files[cproc[p].diskPath] = dwrites[Len(dwrites)][2]

HasStringType(creds) == "type" \in DOMAIN creds /\ creds["type"].t = "string"

HttpPrefixed(sourcePath) ==
    \/ Len(sourcePath) >= 5 /\ SubSeq(sourcePath, 1, 5) = "http:"
    \/ Len(sourcePath) >= 6 /\ SubSeq(sourcePath, 1, 6) = "https:"

VEntered(p) == vproc[p].pc # "idle"

\* C21: type resolution in getVFS. A string "type" of the credentials is the
\* type of the call; without one, a sourcePath that starts with "http:" or
\* "https:" gives the type http; in every other case the call has returned the
\* missing-type error with no handle, and the step in which it did so took no
\* lock and changed neither the handle map nor the record of created handles.
C21_TypeResolution ==
    /\ [](\A p \in VProcs :
            VEntered(p) =>
               IF HasStringType(vproc[p].creds)
               THEN /\ vproc[p].fsType = vproc[p].creds["type"].s
                    /\ vproc[p].err # "credentials missing type field"
               ELSE IF HttpPrefixed(vproc[p].sourcePath)
               THEN /\ vproc[p].fsType = "http"
                    /\ vproc[p].err # "credentials missing type field"
               ELSE /\ vproc[p].pc = "done"
                    /\ vproc[p].err = "credentials missing type field"
                    /\ vproc[p].v = NoHandle /\ vproc[p].hash = ""
                    /\ vfsMu # p /\ p \notin Creators)
    /\ [][\A p \in VProcs :
            (vproc[p].pc = "idle" /\ vproc'[p].err = "credentials missing type field")
               => /\ vproc'[p].pc = "done"
                  /\ vfsMu' = vfsMu /\ vfsCache' = vfsCache /\ created' = created]_vars

\* One call without a type failed while another call held the lock; a call
\* without a type and one with a type that is no string got http handles from
\* their paths.
C21_Witness ==
    \E p, q, r \in VProcs :
        /\ vproc[p].pc = "done" /\ vproc[p].err = "credentials missing type field"
        /\ vproc[p].creds = CNoType
        /\ VReturnedOk(q) /\ vproc[q].creds = CNoType /\ vproc[q].v.fsType = "http"
        /\ vproc[r].creds = CIntType /\ vproc[r].fsType = "http"
        /\ vproc[r].pc = "store" /\ vfsMu = r

\* The type the call resolved, stated on its inputs.
TypeOfCall(r) ==
    IF HasStringType(r.creds) THEN r.creds["type"].s
    ELSE IF HttpPrefixed(r.sourcePath) THEN "http"
    ELSE "none"

\* s without its first character when that is a slash.
TrimOneSlash(s) == IF Len(s) >= 1 /\ SubSeq(s, 1, 1) = "/" THEN SubSeq(s, 2, Len(s)) ELSE s

\* The relative paths of DecompPaths under a local handle, written out.
LocalTable ==
    [u \in DecompPaths |->
        CASE u = "/d/r.csv" -> "d/r.csv"
          [] u = "r.csv" -> "w/r.csv"
          [] u = "http://h/x.csv" -> "w/http:/h/x.csv"
          [] u = "https://h/d/y" -> "w/https:/h/d/y"
          [] u = "http://h" -> "w/http:/h"
          [] u = "b.DB" -> "w/b.DB"
          [] u = "/x.bin" -> "x.bin"
          [] u = "//x.bin" -> "x.bin"]

\* The decompositions of the URLs of DecompPaths, written out.
UrlTable ==
    [u \in {"http://h/x.csv", "https://h/d/y", "http://h"} |->
        CASE u = "http://h/x.csv" -> [fsRoot |-> "http://h", relPath |-> "x.csv"]
          [] u = "https://h/d/y" -> [fsRoot |-> "https://h", relPath |-> "d/y"]
          [] u = "http://h" -> [fsRoot |-> "http://h", relPath |-> ""]]

\* C22: root and relative path by backend class. For type local the root is
\* "/" and the relative path is the absolute sourcePath without its leading
\* slash; for type http or https and a URL the root is scheme://host and the
\* relative path is the URL path without its leading slash; for every other
\* type the root is "" and the relative path is sourcePath with one leading
\* slash taken off.  The relative path is that of calls that returned a handle.
C22_Decomposition ==
    lastV.called /\ TypeOfCall(lastV) # "none" =>
        LET t == TypeOfCall(lastV)
            sp == lastV.sourcePath
        IN  IF t = "local"
            THEN /\ lastV.fsRoot = "/"
                 /\ lastV.err = "" =>
                       /\ lastV.relPath = LocalTable[sp]
                       /\ "/" \o lastV.relPath = Abs(sp)
            ELSE IF t \in {"http", "https"}
            THEN /\ lastV.fsRoot = UrlParse(sp).Scheme \o "://" \o UrlParse(sp).Host
                 /\ lastV.err = "" => lastV.relPath = TrimOneSlash(UrlParse(sp).Path)
                 /\ sp \in DOMAIN UrlTable =>
                       /\ lastV.fsRoot = UrlTable[sp].fsRoot
                       /\ lastV.err = "" => lastV.relPath = UrlTable[sp].relPath
            ELSE /\ lastV.fsRoot = ""
                 /\ lastV.err = "" => lastV.relPath = TrimOneSlash(sp)

\* A cloud path with two leading slashes lost one of them, after a call for
\* an https URL with a directory in its path.
C22_Witness ==
    /\ lastV.called /\ lastV.err = "" /\ lastV.sourcePath = "//x.bin"
    /\ lastV.creds = CS3 /\ lastV.relPath = "/x.bin" /\ lastV.fsRoot = ""
    /\ prevV.called /\ prevV.err = "" /\ prevV.sourcePath = "https://h/d/y"
    /\ prevV.fsRoot = "https://h" /\ prevV.relPath = "d/y"

(***************************************************************************)
(* The lock of the handle cache                                            *)
(***************************************************************************)
HoldsLock(p) == vproc[p].pc \in {"locked", "create", "store", "unlock"}

\* C23: lock discipline of the handle cache. The lock is held by exactly the
\* call that is between its Lock and its return, so a call that has returned,
\* with a hit, an unknown backend, a failed or a successful creation, has
\* released it; every call that waits for the lock returns in the end; and
\* while a call is in backend setup every other call that waits for the lock
\* keeps waiting, whatever its hash and whether the map holds its hash or not.
C23_LockDiscipline ==
    /\ [](\A p \in VProcs : HoldsLock(p) <=> vfsMu = p)
    /\ [][\A p \in VProcs :
            (vproc[p].pc = "unlock" /\ vproc'[p].pc = "done") => vfsMu' = 0]_vars
    /\ [][\A p, q \in VProcs :
            (vproc[p].pc = "create" /\ vproc[q].pc = "hashed")
               => vproc'[q].pc = "hashed"]_vars
    /\ \A p \in VProcs : (vproc[p].pc = "hashed") ~> (vproc[p].pc = "done")

\* A call is in backend setup while a call for another hash, which the map
\* already holds, waits for the lock; the third call has returned a failure.
C23_Witness ==
    \E p, q, r \in VProcs :
        /\ vproc[p].pc = "create" /\ vfsMu = p
        /\ vproc[q].pc = "hashed" /\ vproc[q].hash # vproc[p].hash
        /\ vproc[q].hash \in DOMAIN vfsCache
        /\ VReturnedOk(r) /\ vproc[r].hash = vproc[q].hash

(***************************************************************************)
(* The success path of a miss                                              *)
(***************************************************************************)
BothWritten(r) ==
    r.tier = "miss" /\ r.err = "" /\ r.memSet = "ok" /\ r.diskWrite = "ok"

\* C24: right after a successful miss whose two cache writes succeeded, the
\* memory entry, the disk entry and the returned output file hold the same
\* bytes; and a call whose re-read of the closed output file fails has written
\* neither tier: it leaves the memory tier and the disk entry as they were.
C24_TiersAgree ==
    /\ []((BothWritten(last) /\ gap = {})
            => /\ last.key \in DOMAIN mem
               /\ {last.diskPath, last.path} \subseteq DOMAIN files
               /\ mem[last.key] = files[last.path]
               /\ files[last.diskPath] = files[last.path])
    /\ [](last.err = "failed to read converted db"
            => last.memSet = "none" /\ last.diskWrite = "none")
    /\ [][(ncalls' = ncalls + 1 /\ last'.err = "failed to read converted db")
            => /\ mem' = mem
               /\ (last'.diskPath \in DOMAIN files') = (last'.diskPath \in DOMAIN files)
               /\ last'.diskPath \in DOMAIN files
                     => files'[last'.diskPath] = files[last'.diskPath]]_vars

\* A converted csv was written to both tiers and returned; the call before it
\* converted and failed to read its output back.
C24_Witness ==
    /\ BothWritten(last) /\ gap = {} /\ last.imports = 1
    /\ files[last.path] = Convert("csv", "c1") /\ mem[last.key] = files[last.path]
    /\ prev.err = "failed to read converted db" /\ prev.key = last.key

(***************************************************************************)
(* Errors of the miss pipeline                                             *)
(***************************************************************************)
\* C25: no internal retries. A call opens the source stream at most once,
\* opens a converter at most once and runs the import at most once, and it
\* imports only through a converter it opened; a call that fetches does so
\* before any converter is opened, and the first of these steps that fails
\* ends the call with its error: no later step has run, no path is returned
\* and no tier is written.
C25_NoRetries ==
    LET r == last
    IN  Called(r) =>
           /\ r.fetches \in {0, 1} /\ r.opens \in {0, 1} /\ r.imports \in {0, 1}
           /\ r.imports <= r.opens
           /\ Hit(r) => r.fetches = 0 /\ r.opens = 0 /\ r.imports = 0
           /\ r.err = "fetch error"
                 => r.fetches = 1 /\ r.opens = 0 /\ r.imports = 0
           /\ r.err \in {"failed to open converter", "failed to open filesystem converter"}
                 => r.opens = 1 /\ r.imports = 0
           /\ r.err = "conversion failed" => r.opens = 1 /\ r.imports = 1
           /\ r.err \in {"fetch error", "failed to open converter",
                          "failed to open filesystem converter", "conversion failed"}
                 => r.path = "" /\ r.memSet = "none" /\ r.diskWrite = "none"

\* A call failed in the import after one fetch and one converter; the call
\* before it failed in the fetch.
C25_Witness ==
    /\ last.err = "conversion failed" /\ last.fetches = 1
    /\ last.opens = 1 /\ last.imports = 1
    /\ prev.err = "fetch error" /\ prev.fetches = 1 /\ prev.opens = 0

\* converters.Open of the call returned a converter.
ConverterOpened(r) ==
    /\ Called(r) /\ r.opens = 1
    /\ r.err \notin {"failed to open converter", "failed to open filesystem converter"}

\* C26: converter release. A call whose converters.Open succeeded with a
\* converter that has a Close method has called Close exactly once when it
\* returns, whether the import succeeded or failed.
C26_ConverterClosed ==
    (ConverterOpened(last) /\ last.closable) => last.closes = 1

(***************************************************************************)
(* The directory branch                                                    *)
(***************************************************************************)
\* The call created its output file: it went into one of the two branches.
Branched(r) == r.tier = "miss" /\ r.err # "create output temp"

TypeIsLocal(creds) ==
    "type" \in DOMAIN creds /\ creds["type"].t = "string" /\ creds["type"].s = "local"

IsSourceTemp(f) ==
    Len(f) >= Len(CacheDir) + 16
       /\ SubSeq(f, Len(CacheDir) + 2, Len(CacheDir) + 16) = "flight2_source_"

\* C27: the directory branch. A call that goes on after creating its output
\* file takes the directory branch exactly when the type of its credentials is
\* the string "local" and its resolved path is a directory when it is called;
\* such a call does not fetch, does not touch the handle cache, creates no
\* input scratch file and opens no converter but the "filesystem" one; every
\* other call, and so every call with another type, fetches the path as a
\* stream and never opens the "filesystem" converter.
C27_DirectoryBranch ==
    [][(ncalls' = ncalls + 1 /\ Branched(last'))
         => LET r == last'
                isDir == /\ TypeIsLocal(r.creds)
                         /\ EntryAt(world, <<"local", r.resolved>>) = "dir"
            IN  IF isDir
                THEN /\ r.fetches = 0
                     /\ vfsCache' = vfsCache
                     /\ \A f \in r.made : ~IsSourceTemp(f)
                     /\ r.driver \in {"", "filesystem"}
                     /\ r.opens = 1 => r.driver = "filesystem"
                ELSE /\ r.fetches = 1
                     /\ r.driver # "filesystem"]_vars

\* A local directory was converted by the filesystem driver without a fetch,
\* after an s3 call for the same path, which was fetched as a stream.
C27_Witness ==
    /\ Ok(last) /\ last.tier = "miss" /\ last.driver = "filesystem"
    /\ TypeIsLocal(last.creds) /\ last.fetches = 0 /\ last.sourcePath = "/d/r"
    /\ prev.tier = "miss" /\ prev.creds = CS3 /\ prev.sourcePath = "/d/r"
    /\ prev.fetches = 1

(***************************************************************************)
(* The lifetime of the input scratch file                                  *)
(***************************************************************************)
SourceTemps(r) == {f \in r.made : IsSourceTemp(f)}

\* The errors of a miss that are returned before the input scratch file exists.
BeforeSourceTemp == {"create output temp", "open dir", "fetch error",
                     "failed to open filesystem converter", "create source temp"}

\* C28: the lifetime of the input scratch file. Every flight2_source_ file a
\* call created is gone when the call has returned, whether the call succeeded
\* or failed after creating it, so that no such file exists between calls; a
\* call of the stream branch that got as far as the copy created exactly one.
C28_InputScratchRemoved ==
    /\ \A f \in DOMAIN files : ~IsSourceTemp(f)
    /\ \A r \in {last, prev} :
          /\ SourceTemps(r) \cap DOMAIN files = {}
          /\ (r.tier = "miss" /\ r.fetches = 1 /\ r.err \notin BeforeSourceTemp)
                => Cardinality(SourceTemps(r)) = 1

\* One call created an input scratch file and succeeded, the next created one
\* and failed in the import.
C28_Witness ==
    /\ Ok(prev) /\ SourceTemps(prev) # {} /\ prev.fetched # ""
    /\ last.err = "conversion failed" /\ SourceTemps(last) # {}

(***************************************************************************)
(* Cancellation (under SpecCancel)                                         *)
(***************************************************************************)
XReturned(p) == cproc[p].pc = "done"

\* C29: cancellation during the fetch. A call whose context was cancelled
\* while it was opening the source stream or copying it into the input scratch
\* file returns an error and no path, and has not gone on to convert.
C29_CancelStopsFetch ==
    \A p \in CancelProcs :
        (XReturned(p) /\ cproc[p].ctxDone \in FetchPcs)
            => cproc[p].err # "" /\ cproc[p].path = "" /\ cproc[p].data = ""

(***************************************************************************)
(* The errors GetSQLiteDB returns                                          *)
(***************************************************************************)
TextOf(r) == ErrorText(r.err, r.driver, ToLower(Ext(r.resolved)))

\* A failed call returns one error and the empty path.
OneErrorNoPath(r) == (Called(r) /\ r.err # "") => r.path = ""

\* C30: the errors. A failure to open the source stream is returned with the
\* prefix "fetch error"; a failure of the import is returned with the prefix
\* "conversion failed" and with the name of the driver in its text; a failed
\* call returns an error and the empty path.
C30_ErrorTaxonomy ==
    /\ OneErrorNoPath(last)
    /\ last.err = "fetch error" => HasPrefix(TextOf(last), "fetch error")
    /\ (last.imports = 1 /\ last.err = "conversion failed")
          => /\ HasPrefix(TextOf(last), "conversion failed")
             /\ last.driver # ""
             /\ Contains(TextOf(last), last.driver)

(***************************************************************************)
(* The lifetime of the disk tier                                           *)
(***************************************************************************)
\* The files of the disk tier: <cacheDir>/<md5 of a key>.sqlite
IsDiskTierFile(f) == HasPrefix(f, CacheDir \o "/md5(") /\ HasSuffix(f, ".sqlite")

DiskTierFiles == {f \in DOMAIN files : IsDiskTierFile(f)}

\* C31: the disk tier only grows. No step deletes a file of the disk tier, and
\* none leaves a file that held an artifact empty: an entry that was written
\* stays, whatever calls follow, failed ones for its key included.
C31_DiskTierOnlyGrows ==
    [][\A f \in DiskTierFiles :
          /\ f \in DOMAIN files'
          /\ files[f] # "" => files'[f] # ""]_vars

(***************************************************************************)
(* The key of the handle cache (under SpecHash)                            *)
(***************************************************************************)
\* C32: the key of the handle cache is injective. Two getVFS calls whose root
\* or credential map differ compute different hashes, whatever the key sets of
\* the maps and however many values differ, and a call is handed a handle that
\* was created for its own type, root and credentials.
C32_HandleKeyInjective ==
    /\ (lastV.called /\ prevV.called
          /\ <<prevV.fsRoot, prevV.creds>> # <<lastV.fsRoot, lastV.creds>>)
            => prevV.hash # lastV.hash
    /\ (lastV.called /\ lastV.err = "")
            => /\ lastV.v.conf = ConfOf(lastV.creds)
               /\ lastV.v.fsRoot = lastV.fsRoot
               /\ lastV.v.fsType = FsTypeOf(lastV.sourcePath, lastV.creds).fsType

(***************************************************************************)
(* The two tiers under concurrent calls (under SpecConc)                   *)
(***************************************************************************)
\* No GetSQLiteDB call is between its first and its last statement.
NoCallInFlight == \A p \in CProcs : cproc[p].pc \in {"idle", "done"}

\* C33: tier agreement. Whenever no call is in flight, a key that has an entry
\* in the memory tier and an entry in the disk tier has the same bytes in
\* both, also after concurrent misses for the key whose pipeline runs produced
\* different artifacts.
C33_TiersAgreeAtRest ==
    NoCallInFlight
        => \A key \in DOMAIN mem :
              DiskPath(key) \in DOMAIN files => mem[key] = files[DiskPath(key)]

(***************************************************************************)
(* The disk step of a memory miss (under SpecDiskDir)                      *)
(***************************************************************************)
\* C34: an unreadable disk entry falls through. A call that misses the memory
\* tier and whose disk path does not exist, is a directory, or exists and
\* cannot be read goes on to the pipeline: it is a miss, its error if any is
\* one of the pipeline, and the memory tier is left as it was unless the
\* pipeline succeeded and stored its own artifact.
C34_DiskStepFallsThrough ==
    [][(/\ ncalls' = ncalls + 1
        /\ last'.key \notin DOMAIN mem
        /\ \/ last'.diskPath \notin DOMAIN files
           \/ files[last'.diskPath] = DirEntry
           \/ last'.diskRead = "failed")
          => /\ last'.tier = "miss"
             /\ last'.err \in PipelineErrors \cup {"failed to read converted db", ""}
             /\ last'.err # "create output temp" => last'.made # {}
             /\ mem' # mem
                   => /\ last'.err = "" /\ last'.memSet = "ok"
                      /\ mem' = Put(mem, last'.key, files'[last'.path])
                      /\ last'.opens + last'.fetches > 0]_vars

\* A call found its disk entry unreadable and converted again; the next call,
\* for a key whose disk path is a directory, converted and cached in memory,
\* the directory still in its place.
C34_Witness ==
    /\ prev.tier = "miss" /\ prev.diskRead = "failed" /\ Ok(prev)
    /\ last.tier = "miss" /\ Ok(last) /\ last.diskRead = "none"
    /\ last.diskPath \in DOMAIN files /\ files[last.diskPath] = DirEntry
    /\ last.key \in DOMAIN mem /\ mem[last.key] = "c2"
    /\ last.diskWrite = "failed"

(***************************************************************************)
(* The request history (under SpecHistory)                                 *)
(***************************************************************************)
NoDuplicates(items) == \A i, j \in 1..Len(items) : items[i] = items[j] => i = j

Elems(items) == {items[i] : i \in 1..Len(items)}

\* The call of p that has returned was an Add.
Added(p) == hproc[p].pc = "idle" /\ hproc[p].op = "Add"

\* C36: the request history. At every moment of any interleaving of Add and
\* GetRecent calls the list has at most limit items and no URL twice; an Add
\* leaves its URL at the most recent position, the other items in their
\* order, the oldest item dropped if the list would exceed the limit; and
\* GetRecent returns the items from the most recent to the oldest.
C36_RequestHistory ==
    /\ Len(history.items) <= history.limit
    /\ NoDuplicates(history.items)
    /\ \A p \in HProcs :
          Added(p)
             => LET b == hproc[p].before
                    a == hproc[p].after
                    u == hproc[p].url
                IN  /\ a[Len(a)] = u
                    /\ u \in Elems(b)
                          => /\ Len(a) = Len(b) /\ Elems(a) = Elems(b)
                             /\ \A i, j \in 1..Len(b) :
                                   (i < j /\ b[i] # u /\ b[j] # u)
                                      => \E k, l \in 1..Len(a) :
                                            k < l /\ a[k] = b[i] /\ a[l] = b[j]
                    /\ (u \notin Elems(b) /\ Len(b) < history.limit) => a = Append(b, u)
                    /\ (u \notin Elems(b) /\ Len(b) = history.limit)
                          => a = Append(SubSeq(b, 2, Len(b)), u)
    /\ \A p \in HProcs :
          (hproc[p].pc = "idle" /\ hproc[p].op = "GetRecent")
             => /\ Len(hproc[p].res) = Len(hproc[p].before)
                /\ \A i \in 1..Len(hproc[p].res) :
                      hproc[p].res[i] = hproc[p].before[Len(hproc[p].before) + 1 - i]

\* With a full list, one goroutine re-added the oldest URL, which moved to the
\* most recent position, and another added a new one, which dropped the oldest;
\* a GetRecent before had returned the two items, most recent first.
C36_Witness ==
    \E p, q \in HProcs :
        /\ p # q /\ history.limit = 2
        /\ Added(p) /\ Len(hproc[p].before) = 2 /\ Len(hproc[p].after) = 2
        /\ hproc[p].url \notin Elems(hproc[p].before)
        /\ hproc[p].after[2] = hproc[p].url
        /\ hproc[p].after[1] = hproc[p].before[2]
        /\ Added(q) /\ Len(hproc[q].before) = 2
        /\ hproc[q].url = hproc[q].before[1]
        /\ hproc[q].after = <<hproc[q].before[2], hproc[q].url>>


(***************************************************************************)
(* Properties of listTables (under SpecTables)                             *)
(***************************************************************************)
Redirected(a) == a.status = 302

\* The rows loop collected every table of the database.
ReadWhole(r) == ~r.queryFails /\ r.tables = QueryRows(r.names)

\* dbUrlPath/tb0 as a rooted path without a doubled slash
Tb0Under(dbUrlPath) ==
    CASE dbUrlPath = "/testdb" -> "/testdb/tb0"
      [] dbUrlPath = "/testdb/" -> "/testdb/tb0"
      [] dbUrlPath = "testdb" -> "/testdb/tb0"
      [] dbUrlPath = "/app/test/banquet" -> "/app/test/banquet/tb0"

\* C37: when listTables has read the table list of the database, it answers
\* with a 302 redirect exactly if autoSelectTb0 is enabled and the database
\* holds one table and that table is tb0; the redirect goes to dbUrlPath/tb0;
\* with autoSelectTb0 disabled, and when the query fails, there is no redirect.
C37_AutoSelectTb0 ==
    resp.kind = "listTables" =>
        /\ ReadWhole(resp) =>
              (Redirected(resp.answer) <=>
                  cfg.autoSelectTb0 /\ resp.names = {"tb0"})
        /\ Redirected(resp.answer) =>
              /\ cfg.autoSelectTb0
              /\ resp.answer.target = Tb0Under(resp.dbUrlPath)
        /\ ~Redirected(resp.answer) => resp.answer.target = ""
        /\ resp.queryFails => resp.answer.status = 500

C37_Witness ==
    /\ resp.kind = "listTables"
    /\ ReadWhole(resp)
    /\ cfg.autoSelectTb0
    /\ resp.names = {"tb0"}
    /\ resp.dbUrlPath = "/testdb/"
    /\ Redirected(resp.answer)

(***************************************************************************)
(* Properties of localOnlyMiddleware (under SpecLocalOnly)                 *)
(***************************************************************************)
\* The host a remote address names.
HostOf(remote) ==
    CASE remote \in {"127.0.0.1:5000", "127.0.0.1"} -> "127.0.0.1"
      [] remote \in {"[::1]:5000", "::1"} -> "::1"
      [] remote = "localhost:5000" -> "localhost"
      [] remote \in {"10.0.0.7:5000", "10.0.0.7"} -> "10.0.0.7"
      [] remote = "127.0.0.2:5000" -> "127.0.0.2"
      [] remote = "[::ffff:127.0.0.1]:5000" -> "::ffff:127.0.0.1"

LocalHosts == {"127.0.0.1", "::1", "localhost"}

Handlers == {Patterns[i].handler : i \in 1..Len(Patterns)}

\* C38: with localOnly set, a request from a host other than 127.0.0.1, ::1
\* and localhost is answered 403 and reaches no route handler; a request from
\* one of the three reaches the handler the mux picks for it, unchanged.
C38_LocalOnly ==
    (resp.kind = "route" /\ cfg.localOnly) =>
        IF HostOf(resp.req.remote) \notin LocalHosts
        THEN /\ resp.answer.status = 403
             /\ resp.answer.handler = ""
             /\ resp.answer.passed = <<>>
        ELSE /\ resp.answer.status # 403
             /\ resp.answer.handler \in Handlers
             /\ resp.answer.handler = Mux(resp.req.method, resp.req.path)
             /\ resp.answer.passed = <<resp.req>>

C38_Witness ==
    /\ resp.kind = "route"
    /\ cfg.localOnly
    /\ resp.req.remote = "10.0.0.7:5000"
    /\ resp.answer.status = 403
    /\ resp.answer.handler = ""


(***************************************************************************)
(* Properties of handleBanquet (under SpecBanquet)                         *)
(***************************************************************************)
\* C35: the handler owns the artifact. When GetSQLiteDB succeeds in
\* handleBanquet, the file it returned is a new file that is gone when the
\* handler has returned, however serving the database ended, nothing else is
\* removed, and the request URL is the newest item of the history; when
\* GetSQLiteDB fails, the handler removes no file and the history stays as
\* it was.
C35_HandlerOwnsArtifact ==
    [][ncalls' = ncalls + 1 =>
          IF last'.err = ""
          THEN /\ last'.path # ""
               /\ last'.path \notin DOMAIN files
               /\ last'.path \in resp'.left
               /\ DOMAIN files' = resp'.left \ {last'.path}
               /\ Len(history'.items) >= 1
               /\ history'.items[Len(history'.items)] = resp'.req.url
          ELSE /\ last'.path = ""
               /\ DOMAIN files' = resp'.left
               /\ \A f \in DOMAIN files : f \in DOMAIN files'
               /\ history' = history]_vars

C35_Witness ==
    /\ resp.kind = "banquet"
    /\ ncalls = 2
    /\ prev.err = "fetch error"
    /\ last.err = ""
    /\ resp.answer.status = 500
    /\ last.path \in resp.left
    /\ last.path \notin DOMAIN files
    /\ history.items = <<resp.req.url>>


(***************************************************************************)
(* Properties of getDriver (under SpecDriver)                              *)
(***************************************************************************)
\* The driver table of the claim.
DriverOf(ext) ==
    IF ext = ".csv" THEN "csv"
    ELSE IF ext = ".xlsx" \/ ext = ".xls" THEN "excel"
    ELSE IF ext = ".zip" THEN "zip"
    ELSE IF ext = ".html" \/ ext = ".htm" THEN "html"
    ELSE IF ext = ".json" THEN "json"
    ELSE IF ext = ".txt" THEN "txt"
    ELSE ""

\* C39: getDriver maps .csv to csv, .xlsx and .xls to excel, .zip to zip,
\* .html and .htm to html, .json to json, .txt to txt and every other
\* extension (.db, .sqlite, .sqlite3 and the empty one among them) to the
\* empty string; applied twice to one extension it gives one driver, and an
\* application changes nothing of the program's state.
C39_DriverResolver ==
    /\ [](\A i \in 1..Len(drv) :
            /\ drv[i].driver = DriverOf(drv[i].ext)
            /\ drv[i].ext \in {".db", ".sqlite", ".sqlite3", ""} => drv[i].driver = ""
            /\ \A j \in 1..Len(drv) :
                  drv[i].ext = drv[j].ext => drv[i].driver = drv[j].driver)
    /\ [][drv' # drv =>
            UNCHANGED <<world, mem, files, vfsCache, cfg, history>>]_vars

C39_Witness ==
    /\ Len(drv) = 2
    /\ drv[1].ext = ".xls"
    /\ drv[1].driver = "excel"
    /\ drv[2].ext = ".sqlite3"
    /\ drv[2].driver = ""

=============================================================================
